---- MODULE Spec2Model ----
(***************************************************************************)
(* State-machine model of the tokio_php request bridge                     *)
(* (src/ext/bridge/bridge.c, bridge.h) and of the header ledger of the     *)
(* PHP extension (src/ext/tokio_sapi.c).                                   *)
(*                                                                         *)
(* Every worker thread owns one thread-local slot tls_ctx.  A slot is      *)
(* modelled as a sequence of length 0 (NULL) or 1 (pointer to a context).  *)
(* A char* is modelled the same way: <<>> is NULL, <<s>> points to the     *)
(* NUL-terminated string s, and a string is a sequence of characters.      *)
(* Function pointers and opaque void* values are names; "NULL" is the      *)
(* null pointer.                                                           *)
(*                                                                         *)
(* A bridge operation that invokes a callback is split in two steps: the   *)
(* call step runs the code up to and including the callback invocation     *)
(* and pushes a frame on the thread's call stack; while the frame is on    *)
(* the stack the callback body runs, and it may itself call any bridge     *)
(* operation; the return step runs the code after the callback.            *)
(***************************************************************************)
EXTENDS Integers, Sequences, FiniteSets, TLC

VARIABLES
    tls_ctx,             \* thread -> <<>> | <<tokio_bridge_ctx_t>>
    tls_request_ctx,     \* thread -> <<>> | <<tokio_request_context>>
    stack,               \* thread -> frames of operations waiting in a callback
    tls_request_id,      \* thread -> request id of the PHP extension
    finish_invocations,  \* thread -> finish callback invocations since init
    allocated,           \* thread -> contexts calloc'ed and not yet freed
    php,                 \* thread -> PHP output buffers and flush state
    memfd,               \* the bytes written to STDOUT_FILENO so far
    tls_heartbeat_ctx,        \* thread -> heartbeat ctx of the PHP extension
    tls_heartbeat_max_secs,   \* thread -> its maximum extension
    tls_heartbeat_callback,   \* thread -> its callback
    superglobals_initialized, \* thread -> 0 | 1
    cached_superglobal_arrs,  \* thread -> track_var -> <<>> | <<array>>
    symbol_table,        \* thread -> EG(symbol_table): the superglobal arrays
    sapi_headers,        \* thread -> SG(sapi_headers)
    last                 \* the most recent call / return event (observation)

\* The thread-local state of the PHP extension (tokio_sapi.c).
sapi_vars == <<tls_request_ctx, tls_request_id, php, memfd,
               tls_heartbeat_ctx, tls_heartbeat_max_secs,
               tls_heartbeat_callback, superglobals_initialized,
               cached_superglobal_arrs, symbol_table, sapi_headers>>
\* The heartbeat statics of the PHP extension.
heartbeat_vars ==
    <<tls_heartbeat_ctx, tls_heartbeat_max_secs, tls_heartbeat_callback>>
\* The superglobal cache and the engine state it points into.
superglobal_vars ==
    <<superglobals_initialized, cached_superglobal_arrs, symbol_table,
      sapi_headers>>
\* The output side of the PHP extension.
php_vars == <<php, memfd>>
\* The thread-local state of the bridge (bridge.c) and its running calls.
bridge_vars == <<tls_ctx, stack, finish_invocations, allocated>>

vars == <<tls_ctx, tls_request_ctx, tls_request_id, stack, finish_invocations,
          allocated, php, memfd, tls_heartbeat_ctx, tls_heartbeat_max_secs,
          tls_heartbeat_callback, superglobals_initialized,
          cached_superglobal_arrs, symbol_table, sapi_headers, last>>

(***************************************************************************)
(* Bounds of the model.                                                    *)
(***************************************************************************)
\* Deepest nesting of bridge operations inside callbacks.
MaxDepth == 2
\* The same bound in Spec, which runs the whole API.
MaxNest == 1
\* Largest ledger Spec builds.
MaxHeld == 1
\* Largest ledger the general specifications build (the capacity itself is
\* reached in SpecCap and SpecSapiCap).
MaxLedger == 2
\* Largest stream offset SpecStream sets.
MaxOffset == 2
\* Most bytes the script of SpecFlush writes.
MaxOutput == 2
\* Most output buffers the script of SpecFlush opens itself.
MaxLevel == 1
\* Most records packed into one batch buffer.
MaxRecords == 2
\* Most times the engine rebuilds its symbol table.
MaxRequests == 1

(***************************************************************************)
(* Program constants.                                                      *)
(***************************************************************************)
TOKIO_BRIDGE_MAX_HEADERS == 128
TOKIO_MAX_HEADERS == 128

Threads == {"A", "B"}
NULL == "NULL"

(***************************************************************************)
(* C strings.                                                              *)
(***************************************************************************)
\* The terminating NUL, read at every index past the end of a string.
NUL == "\\0"

CharAt(s, i) == IF i <= Len(s) THEN s[i] ELSE NUL

\* tolower() on the alphabet the model uses.
ToLower(c) ==
    CASE c = "A" -> "a"
      [] c = "B" -> "b"
      [] c = "X" -> "x"
      [] OTHER -> c

strlen(s) == Len(s)

\* strncasecmp(s1, s2, n) == 0: the first n characters agree ignoring case,
\* the comparison ending at a NUL both strings share.
strncasecmp_eq(s1, s2, n) ==
    \A i \in 1..n :
        (\A j \in 1..(i - 1) : CharAt(s1, j) # NUL)
            => ToLower(CharAt(s1, i)) = ToLower(CharAt(s2, i))

(***************************************************************************)
(* Context lifecycle (bridge.c).                                           *)
(***************************************************************************)
\* calloc(1, sizeof(tokio_bridge_ctx_t)) followed by the three assignments.
NewCtx(request_id, worker_id) ==
    [ request_id            |-> request_id,
      worker_id             |-> worker_id,
      is_finished           |-> 0,
      output_offset         |-> 0,
      finished_header_count |-> 0,
      response_code         |-> 200,
      headers               |-> <<>>,
      heartbeat_ctx         |-> NULL,
      heartbeat_max_secs    |-> 0,
      heartbeat_callback    |-> NULL,
      finish_ctx            |-> NULL,
      finish_callback       |-> NULL,
      is_streaming          |-> 0,
      stream_offset         |-> 0,
      stream_ctx            |-> NULL,
      stream_callback       |-> NULL ]

HasCtx(t) == tls_ctx[t] # <<>>

\* Mutant: the slot is a plain static, every thread resolves to one context.
Ctx_shared(t) == tls_ctx[CHOOSE u \in Threads : tls_ctx[u] # <<>>][1]

\* The context of thread t: what its thread-local tls_ctx points to.
Ctx(t) == tls_ctx[t][1]

\* tokio_bridge_get_ctx
tokio_bridge_get_ctx(t) == tls_ctx[t]

\* An event: what the most recent step called or returned.
\*   kind "done"   : the operation ran from entry to return in this step
\*   kind "call"   : the operation ran up to its callback, which is now running
\*   kind "return" : the callback returned and the operation returned
Ev(t, op, kind, ret, arg) ==
    [t |-> t, op |-> op, kind |-> kind, ret |-> ret, arg |-> arg]

\* The frames of a thread whose context has been freed point to freed memory.
Stale(frames) == [i \in DOMAIN frames |-> [frames[i] EXCEPT !.stale = TRUE]]

\* Mutant: an existing context is reused without being zeroed.
init_ctx_slot_reuses(slot, request_id, worker_id, calloc_ok) ==
    IF ~calloc_ok THEN <<>>
    ELSE IF slot # <<>>
    THEN <<[slot[1] EXCEPT !.request_id = request_id,
                           !.worker_id = worker_id,
                           !.response_code = 200]>>
    ELSE <<NewCtx(request_id, worker_id)>>

\* Mutant: the new context takes over the finish callback of the old one.
init_ctx_slot_keeps_wiring(slot, request_id, worker_id, calloc_ok) ==
    IF ~calloc_ok THEN <<>>
    ELSE IF slot # <<>>
    THEN <<[NewCtx(request_id, worker_id) EXCEPT
               !.finish_ctx = slot[1].finish_ctx,
               !.finish_callback = slot[1].finish_callback]>>
    ELSE <<NewCtx(request_id, worker_id)>>

\* The slot after tokio_bridge_init_ctx: the old context is destroyed, the
\* new one is there unless calloc failed.
init_ctx_slot(slot, request_id, worker_id, calloc_ok) ==
    IF calloc_ok THEN <<NewCtx(request_id, worker_id)>> ELSE <<>>

\* The contexts tokio_bridge_destroy_ctx frees: the one in the slot, if any.
destroy_ctx_frees(slot) == IF slot # <<>> THEN 1 ELSE 0

\* Mutant: tokio_bridge_init_ctx allocates without tearing down first.
init_ctx_frees_nothing(slot) == 0

\* The contexts tokio_bridge_init_ctx frees before it calls calloc.
init_ctx_frees(slot) == IF slot # <<>> THEN destroy_ctx_frees(slot) ELSE 0

tokio_bridge_init_ctx(t, request_id, worker_id, calloc_ok) ==
    /\ tls_ctx' = [tls_ctx EXCEPT
           ![t] = init_ctx_slot(tls_ctx[t], request_id, worker_id, calloc_ok)]
    /\ allocated' = [allocated EXCEPT
           ![t] = (@ - init_ctx_frees(tls_ctx[t]))
                    + (IF calloc_ok THEN 1 ELSE 0)]
    /\ stack' = [stack EXCEPT ![t] = Stale(stack[t])]
    /\ finish_invocations' = [finish_invocations EXCEPT ![t] = 0]
    /\ last' = Ev(t, "init_ctx", "done", "void",
                  [request_id |-> request_id, worker_id |-> worker_id,
                   calloc_ok |-> calloc_ok])
    /\ UNCHANGED sapi_vars

tokio_bridge_destroy_ctx(t) ==
    /\ tls_ctx' = [tls_ctx EXCEPT ![t] = <<>>]
    /\ stack' = [stack EXCEPT ![t] = Stale(stack[t])]
    /\ allocated' = [allocated EXCEPT ![t] = @ - destroy_ctx_frees(tls_ctx[t])]
    /\ last' = Ev(t, "destroy_ctx", "done", "void", <<>>)
    /\ UNCHANGED <<sapi_vars, finish_invocations>>

(***************************************************************************)
(* Finish Request API (bridge.c).                                          *)
(***************************************************************************)
\* Mutant: the snapshot is recorded but the flag is not set.
mark_finished_ctx_noflag(c, offset, header_count, response_code) ==
    IF c.is_finished # 0
    THEN c
    ELSE [c EXCEPT !.output_offset = offset,
                   !.finished_header_count = header_count,
                   !.response_code = response_code]

\* The context after tokio_bridge_mark_finished on a live context.
mark_finished_ctx(c, offset, header_count, response_code) ==
    IF c.is_finished # 0
    THEN c
    ELSE [c EXCEPT !.is_finished = 1,
                   !.output_offset = offset,
                   !.finished_header_count = header_count,
                   !.response_code = response_code]

tokio_bridge_mark_finished(t, offset, header_count, response_code) ==
    /\ tls_ctx' = [tls_ctx EXCEPT
           ![t] = IF HasCtx(t)
                  THEN <<mark_finished_ctx(Ctx(t), offset, header_count,
                                           response_code)>>
                  ELSE <<>>]
    /\ last' = Ev(t, "mark_finished", "done", "void",
                  [offset |-> offset, header_count |-> header_count,
                   response_code |-> response_code])
    /\ UNCHANGED <<sapi_vars, stack, finish_invocations, allocated>>

tokio_bridge_is_finished(t) ==
    IF ~HasCtx(t) THEN 0 ELSE Ctx(t).is_finished

tokio_bridge_get_finished_offset(t) ==
    IF ~HasCtx(t) THEN 0 ELSE Ctx(t).output_offset

tokio_bridge_get_finished_header_count(t) ==
    IF ~HasCtx(t) THEN 0 ELSE Ctx(t).finished_header_count

\* Mutant: without a context the getter returns 0 like the others.
tokio_bridge_get_finished_response_code_zero(t) ==
    IF ~HasCtx(t) THEN 0 ELSE Ctx(t).response_code

tokio_bridge_get_finished_response_code(t) ==
    IF ~HasCtx(t) THEN 200 ELSE Ctx(t).response_code

tokio_bridge_set_finish_callback(t, ctx, callback) ==
    /\ tls_ctx' = [tls_ctx EXCEPT
           ![t] = IF HasCtx(t)
                  THEN <<[Ctx(t) EXCEPT !.finish_ctx = ctx,
                                        !.finish_callback = callback]>>
                  ELSE <<>>]
    /\ last' = Ev(t, "set_finish_callback", "done", "void",
                  [ctx |-> ctx, callback |-> callback])
    /\ UNCHANGED <<sapi_vars, stack, finish_invocations, allocated>>

\* The arguments of one tokio_bridge_trigger_finish call.
FinishArgs(body, headers, header_count, status_code) ==
    [ body         |-> body,
      body_len     |-> Len(body),
      headers      |-> headers,
      headers_len  |-> Len(headers),
      header_count |-> header_count,
      status_code  |-> status_code ]

\* Mutant: the "already finished" check is missing.
trigger_finish_guard_never(c) == FALSE

\* The "already finished" early return of tokio_bridge_trigger_finish.
trigger_finish_guard(c) == c.is_finished # 0

\* Mutant: nothing is recorded before the callback runs.
trigger_finish_ctx_late(c, a) == c

\* Mutant: finishing also switches streaming off.
trigger_finish_ctx_ends_stream(c, a) ==
    [c EXCEPT !.is_finished = 1,
              !.output_offset = a.body_len,
              !.finished_header_count = a.header_count,
              !.response_code = a.status_code,
              !.is_streaming = 0]

\* The snapshot tokio_bridge_trigger_finish records before the callback.
trigger_finish_ctx(c, a) ==
    [c EXCEPT !.is_finished = 1,
              !.output_offset = a.body_len,
              !.finished_header_count = a.header_count,
              !.response_code = a.status_code]

\* Mutant: header_count and status_code are passed in each other's place.
finish_callback_payload_swapped(c, a) ==
    [ callback     |-> c.finish_callback,
      ctx          |-> c.finish_ctx,
      body         |-> a.body,
      body_len     |-> a.body_len,
      headers      |-> a.headers,
      headers_len  |-> a.headers_len,
      header_count |-> a.status_code,
      status_code  |-> a.header_count ]

\* What the finish callback is invoked with.
\* Mutant: the finish callback is handed the ctx of the heartbeat slot.
finish_callback_payload_heartbeat_ctx(c, a) ==
    [ callback     |-> c.finish_callback,
      ctx          |-> c.heartbeat_ctx,
      body         |-> a.body,
      body_len     |-> a.body_len,
      headers      |-> a.headers,
      headers_len  |-> a.headers_len,
      header_count |-> a.header_count,
      status_code  |-> a.status_code ]

finish_callback_payload(c, a) ==
    [ callback     |-> c.finish_callback,
      ctx          |-> c.finish_ctx,
      body         |-> a.body,
      body_len     |-> a.body_len,
      headers      |-> a.headers,
      headers_len  |-> a.headers_len,
      header_count |-> a.header_count,
      status_code  |-> a.status_code ]

\* Whether tokio_bridge_trigger_finish invokes the callback.
trigger_finish_invokes(c) == c.finish_callback # NULL

\* The value tokio_bridge_trigger_finish returns once it passed the guards.
trigger_finish_ret(c) == 1

tokio_bridge_trigger_finish(t, a) ==
    /\ UNCHANGED <<sapi_vars, allocated>>
    /\ IF ~HasCtx(t) \/ trigger_finish_guard(Ctx(t))
       THEN /\ last' = Ev(t, "trigger_finish", "done", 0, a)
            /\ UNCHANGED <<tls_ctx, stack, finish_invocations>>
       ELSE LET c == trigger_finish_ctx(Ctx(t), a) IN
            /\ tls_ctx' = [tls_ctx EXCEPT ![t] = <<c>>]
            /\ IF trigger_finish_invokes(c)
               THEN /\ stack' = [stack EXCEPT ![t] = Append(@,
                          [op |-> "trigger_finish", ret |-> trigger_finish_ret(c),
                           stale |-> FALSE, arg |-> a])]
                    /\ finish_invocations' =
                          [finish_invocations EXCEPT ![t] = @ + 1]
                    /\ last' = Ev(t, "trigger_finish", "call", "pending",
                                  finish_callback_payload(c, a))
               ELSE /\ last' = Ev(t, "trigger_finish", "done",
                                  trigger_finish_ret(c), a)
                    /\ UNCHANGED <<stack, finish_invocations>>

\* The finish or stream callback returns; the operation that invoked it
\* returns without touching the context again.
\* Mutant: after the callback the function stores into tls_ctx again.
CallbackReturn_marks_ctx(t) ==
    /\ stack[t] # <<>>
    /\ LET f == stack[t][Len(stack[t])] IN
       /\ f.op \in {"trigger_finish", "send_chunk"}
       /\ last' = Ev(t, f.op, "return", f.ret, f.arg)
    /\ stack' = [stack EXCEPT ![t] = SubSeq(@, 1, Len(@) - 1)]
    /\ tls_ctx' = [tls_ctx EXCEPT
           ![t] = IF HasCtx(t)
                  THEN <<[Ctx(t) EXCEPT !.is_finished = 1]>>
                  ELSE <<>>]
    /\ UNCHANGED <<sapi_vars, finish_invocations, allocated>>

CallbackReturn(t) ==
    /\ stack[t] # <<>>
    /\ LET f == stack[t][Len(stack[t])] IN
       /\ f.op \in {"trigger_finish", "send_chunk"}
       /\ last' = Ev(t, f.op, "return", f.ret, f.arg)
    /\ stack' = [stack EXCEPT ![t] = SubSeq(@, 1, Len(@) - 1)]
    /\ UNCHANGED <<sapi_vars, tls_ctx, finish_invocations, allocated>>

(***************************************************************************)
(* Heartbeat API (bridge.c).                                               *)
(***************************************************************************)
tokio_bridge_set_heartbeat(t, ctx, max_secs, callback) ==
    /\ tls_ctx' = [tls_ctx EXCEPT
           ![t] = IF HasCtx(t)
                  THEN <<[Ctx(t) EXCEPT !.heartbeat_ctx = ctx,
                                        !.heartbeat_max_secs = max_secs,
                                        !.heartbeat_callback = callback]>>
                  ELSE <<>>]
    /\ last' = Ev(t, "set_heartbeat", "done", "void",
                  [ctx |-> ctx, max_secs |-> max_secs, callback |-> callback])
    /\ UNCHANGED <<sapi_vars, stack, finish_invocations, allocated>>

\* Mutant: a request for exactly the maximum is rejected.
send_heartbeat_rejects_at_max(c, secs) ==
    \/ c.heartbeat_callback = NULL
    \/ secs = 0
    \/ secs >= c.heartbeat_max_secs

\* The early returns of tokio_bridge_send_heartbeat on a live context.
send_heartbeat_rejects(c, secs) ==
    \/ c.heartbeat_callback = NULL
    \/ secs = 0
    \/ secs > c.heartbeat_max_secs

\* Mutant: every accepted request is taken off the maximum.
send_heartbeat_ctx_budget(c, secs) ==
    [c EXCEPT !.heartbeat_max_secs = @ - secs]

\* The context after tokio_bridge_send_heartbeat accepted a request: the
\* function writes to no field.
send_heartbeat_ctx(c, secs) == c

tokio_bridge_send_heartbeat(t, secs) ==
    /\ UNCHANGED <<sapi_vars, finish_invocations, allocated>>
    /\ IF ~HasCtx(t) \/ send_heartbeat_rejects(Ctx(t), secs)
       THEN /\ last' = Ev(t, "send_heartbeat", "done", 0, [secs |-> secs])
            /\ UNCHANGED <<tls_ctx, stack>>
       ELSE /\ tls_ctx' = [tls_ctx EXCEPT
                   ![t] = <<send_heartbeat_ctx(Ctx(t), secs)>>]
            /\ stack' = [stack EXCEPT ![t] = Append(@,
                  [op |-> "send_heartbeat", ret |-> "pending",
                   stale |-> FALSE, arg |-> [secs |-> secs]])]
            /\ last' = Ev(t, "send_heartbeat", "call", "pending",
                          [callback |-> Ctx(t).heartbeat_callback,
                           ctx |-> Ctx(t).heartbeat_ctx, secs |-> secs])

\* return (result != 0) ? 1 : 0
heartbeat_ret(result) == IF result # 0 THEN 1 ELSE 0

\* The heartbeat callback returns result.
HeartbeatReturn(t, result) ==
    /\ stack[t] # <<>>
    /\ LET f == stack[t][Len(stack[t])] IN
       /\ f.op = "send_heartbeat"
       /\ last' = Ev(t, f.op, "return", heartbeat_ret(result),
                     [secs |-> f.arg.secs, result |-> result])
    /\ stack' = [stack EXCEPT ![t] = SubSeq(@, 1, Len(@) - 1)]
    /\ UNCHANGED <<sapi_vars, tls_ctx, finish_invocations, allocated>>

tokio_bridge_get_heartbeat_max(t) ==
    IF ~HasCtx(t) THEN 0 ELSE Ctx(t).heartbeat_max_secs

(***************************************************************************)
(* PHP function tokio_request_heartbeat (tokio_sapi.c).                    *)
(***************************************************************************)
\* if (time <= 0) RETURN_FALSE;
request_heartbeat_rejects(time) == time <= 0

\* (uint64_t)time of a zend_long that passed the check above: the value
\* itself.
request_heartbeat_secs(time) == time

\* RETURN_BOOL(result != 0)
request_heartbeat_ret(result) == result # 0

\* tokio_request_heartbeat(time).  The event records in bridge whether
\* tokio_bridge_send_heartbeat was called (<<secs>>) or not (<<>>).
tokio_request_heartbeat(t, time) ==
    /\ UNCHANGED <<sapi_vars, finish_invocations, allocated>>
    /\ IF request_heartbeat_rejects(time)
       THEN /\ last' = Ev(t, "request_heartbeat", "done", FALSE,
                          [time |-> time, bridge |-> <<>>])
            /\ UNCHANGED <<tls_ctx, stack>>
       ELSE LET secs == request_heartbeat_secs(time) IN
            IF ~HasCtx(t) \/ send_heartbeat_rejects(Ctx(t), secs)
            THEN /\ last' = Ev(t, "request_heartbeat", "done",
                               request_heartbeat_ret(0),
                               [time |-> time, bridge |-> <<secs>>])
                 /\ UNCHANGED <<tls_ctx, stack>>
            ELSE /\ tls_ctx' = [tls_ctx EXCEPT
                        ![t] = <<send_heartbeat_ctx(Ctx(t), secs)>>]
                 /\ stack' = [stack EXCEPT ![t] = Append(@,
                       [op |-> "request_heartbeat", ret |-> "pending",
                        stale |-> FALSE,
                        arg |-> [secs |-> secs, time |-> time]])]
                 /\ last' = Ev(t, "request_heartbeat", "call", "pending",
                               [callback |-> Ctx(t).heartbeat_callback,
                                ctx |-> Ctx(t).heartbeat_ctx, secs |-> secs,
                                time |-> time])

\* The heartbeat callback returns result to tokio_bridge_send_heartbeat,
\* which returns to tokio_request_heartbeat.
RequestHeartbeatReturn(t, result) ==
    /\ stack[t] # <<>>
    /\ LET f == stack[t][Len(stack[t])] IN
       /\ f.op = "request_heartbeat"
       /\ last' = Ev(t, f.op, "return",
                     request_heartbeat_ret(heartbeat_ret(result)),
                     [secs |-> f.arg.secs, time |-> f.arg.time,
                      result |-> result])
    /\ stack' = [stack EXCEPT ![t] = SubSeq(@, 1, Len(@) - 1)]
    /\ UNCHANGED <<sapi_vars, tls_ctx, finish_invocations, allocated>>

(***************************************************************************)
(* Header Storage API (bridge.c).  The ledger is the first header_count    *)
(* slots of headers[]; the slots past header_count are never read.         *)
(***************************************************************************)
header_count(c) == Len(c.headers)

\* Mutant: the strlen test is missing, a stored name matches by its prefix.
header_matches_prefix(h, name, name_len) ==
    /\ h.name # <<>>
    /\ strncasecmp_eq(h.name[1], name, name_len)

\* The test of the replace loop on one entry.
header_matches(h, name, name_len) ==
    /\ h.name # <<>>
    /\ strlen(h.name[1]) = name_len
    /\ strncasecmp_eq(h.name[1], name, name_len)

\* The entries the replace loop stops at: the first matching one, if any.
MatchIndex(hs, name, name_len) ==
    {i \in 1..Len(hs) :
        /\ header_matches(hs[i], name, name_len)
        /\ \A j \in 1..(i - 1) : ~header_matches(hs[j], name, name_len)}

\* free(value); value = malloc(value_len + 1); if (value) memcpy(...)
replaced_value(value, malloc_ok) == IF malloc_ok THEN <<value>> ELSE <<>>

\* The value the replace path returns.
replace_ret(malloc_ok) == 1

\* Mutant: the capacity check is off by one.
ledger_full_off_by_one(c) == header_count(c) > TOKIO_BRIDGE_MAX_HEADERS

\* The capacity check.
ledger_full(c) == header_count(c) >= TOKIO_BRIDGE_MAX_HEADERS

\* Whether the replace loop runs.
replace_requested(replace) == replace # 0

\* Mutant: only a NULL name is rejected, an empty one is stored.
name_rejected_null_only(name, name_len) == name = <<>>

\* if (name == NULL || name_len == 0) return 0;
name_rejected(name, name_len) == name = <<>> \/ name_len = 0

\* tokio_bridge_add_header on a live context c: the context after the call
\* and the value returned.  name is <<>> (NULL) or <<string>>.
add_header_step(c, name, name_len, value, replace, malloc_name_ok, malloc_value_ok) ==
    IF name_rejected(name, name_len)
    THEN [ctx |-> c, ret |-> 0]
    ELSE LET m == IF replace_requested(replace)
                  THEN MatchIndex(c.headers, name[1], name_len) ELSE {} IN
         IF m # {}
         THEN LET i == CHOOSE i \in m : TRUE IN
              [ctx |-> [c EXCEPT !.headers[i].value =
                                     replaced_value(value, malloc_value_ok)],
               ret |-> replace_ret(malloc_value_ok)]
         ELSE IF ledger_full(c)
         THEN [ctx |-> c, ret |-> 0]
         ELSE IF malloc_name_ok /\ malloc_value_ok
         THEN [ctx |-> [c EXCEPT !.headers = Append(@,
                           [name |-> <<SubSeq(name[1], 1, name_len)>>,
                            value |-> <<value>>])],
               ret |-> 1]
         ELSE [ctx |-> c, ret |-> 0]

tokio_bridge_add_header(t, name, name_len, value, replace, malloc_name_ok, malloc_value_ok) ==
    /\ LET r == IF HasCtx(t)
                THEN add_header_step(Ctx(t), name, name_len, value, replace,
                                     malloc_name_ok, malloc_value_ok)
                ELSE [ctx |-> <<>>, ret |-> 0] IN
       /\ tls_ctx' = [tls_ctx EXCEPT
              ![t] = IF HasCtx(t) THEN <<r.ctx>> ELSE <<>>]
       /\ last' = Ev(t, "add_header", "done", r.ret,
                     [name |-> name, name_len |-> name_len, value |-> value,
                      replace |-> replace, malloc_name_ok |-> malloc_name_ok,
                      malloc_value_ok |-> malloc_value_ok])
    /\ UNCHANGED <<sapi_vars, stack, finish_invocations, allocated>>

tokio_bridge_get_header_count(t) ==
    IF ~HasCtx(t) THEN 0 ELSE header_count(Ctx(t))

\* Mutant: the entries are read from the end of the ledger.
tokio_bridge_get_header_reversed(t, index) ==
    IF ~HasCtx(t) \/ index < 0 \/ index >= header_count(Ctx(t))
    THEN [ret |-> 0, name |-> "unset", value |-> "unset"]
    ELSE [ret |-> 1,
          name |-> Ctx(t).headers[header_count(Ctx(t)) - index].name,
          value |-> Ctx(t).headers[header_count(Ctx(t)) - index].value]

\* tokio_bridge_get_header with a 0-based index: the return value and what
\* is written to *name and *value ("unset" when nothing is written).
tokio_bridge_get_header(t, index) ==
    IF ~HasCtx(t) \/ index < 0 \/ index >= header_count(Ctx(t))
    THEN [ret |-> 0, name |-> "unset", value |-> "unset"]
    ELSE [ret |-> 1,
          name |-> Ctx(t).headers[index + 1].name,
          value |-> Ctx(t).headers[index + 1].value]

tokio_bridge_clear_headers(t) ==
    /\ tls_ctx' = [tls_ctx EXCEPT
           ![t] = IF HasCtx(t)
                  THEN <<[Ctx(t) EXCEPT !.headers = <<>>]>>
                  ELSE <<>>]
    /\ last' = Ev(t, "clear_headers", "done", "void",
                  [freed |-> tokio_bridge_get_header_count(t)])
    /\ UNCHANGED <<sapi_vars, stack, finish_invocations, allocated>>

(***************************************************************************)
(* Streaming API (bridge.c).                                               *)
(***************************************************************************)
\* Mutant: the stream offset is not reset.
enable_streaming_ctx_keeps_offset(c, ctx, callback) ==
    [c EXCEPT !.is_streaming = 1,
              !.stream_ctx = ctx,
              !.stream_callback = callback]

\* The context after tokio_bridge_enable_streaming on a live context.
enable_streaming_ctx(c, ctx, callback) ==
    [c EXCEPT !.is_streaming = 1,
              !.stream_offset = 0,
              !.stream_ctx = ctx,
              !.stream_callback = callback]

tokio_bridge_enable_streaming(t, ctx, callback) ==
    /\ tls_ctx' = [tls_ctx EXCEPT
           ![t] = IF HasCtx(t)
                  THEN <<enable_streaming_ctx(Ctx(t), ctx, callback)>>
                  ELSE <<>>]
    /\ last' = Ev(t, "enable_streaming", "done", "void",
                  [ctx |-> ctx, callback |-> callback])
    /\ UNCHANGED <<sapi_vars, stack, finish_invocations, allocated>>

tokio_bridge_set_stream_callback(t, ctx, callback) ==
    /\ tls_ctx' = [tls_ctx EXCEPT
           ![t] = IF HasCtx(t)
                  THEN <<[Ctx(t) EXCEPT !.stream_ctx = ctx,
                                        !.stream_callback = callback,
                                        !.stream_offset = 0]>>
                  ELSE <<>>]
    /\ last' = Ev(t, "set_stream_callback", "done", "void",
                  [ctx |-> ctx, callback |-> callback])
    /\ UNCHANGED <<sapi_vars, stack, finish_invocations, allocated>>

\* Mutant: a context that is streaming already is refused.
try_enable_streaming_step_strict(c) ==
    IF c.is_streaming # 0 THEN [ctx |-> c, ret |-> 0]
    ELSE IF c.stream_callback = NULL THEN [ctx |-> c, ret |-> 0]
    ELSE [ctx |-> [c EXCEPT !.is_streaming = 1], ret |-> 1]

\* tokio_bridge_try_enable_streaming on a live context.
try_enable_streaming_step(c) ==
    IF c.is_streaming # 0 THEN [ctx |-> c, ret |-> 1]
    ELSE IF c.stream_callback = NULL THEN [ctx |-> c, ret |-> 0]
    ELSE [ctx |-> [c EXCEPT !.is_streaming = 1], ret |-> 1]

tokio_bridge_try_enable_streaming(t) ==
    /\ LET r == IF HasCtx(t) THEN try_enable_streaming_step(Ctx(t))
                ELSE [ctx |-> <<>>, ret |-> 0] IN
       /\ tls_ctx' = [tls_ctx EXCEPT
              ![t] = IF HasCtx(t) THEN <<r.ctx>> ELSE <<>>]
       /\ last' = Ev(t, "try_enable_streaming", "done", r.ret, <<>>)
    /\ UNCHANGED <<sapi_vars, stack, finish_invocations, allocated>>

tokio_bridge_is_streaming(t) ==
    IF ~HasCtx(t) THEN 0 ELSE Ctx(t).is_streaming

\* Mutant: the length of the chunk is not looked at.
send_chunk_rejects_any_len(c, data, data_len) ==
    \/ c.is_streaming = 0
    \/ c.stream_callback = NULL
    \/ data = <<>>

\* The early returns of tokio_bridge_send_chunk on a live context.
\* data is <<>> (NULL) or <<bytes>>.
send_chunk_rejects(c, data, data_len) ==
    \/ c.is_streaming = 0
    \/ c.stream_callback = NULL
    \/ data = <<>>
    \/ data_len = 0

tokio_bridge_send_chunk(t, data, data_len) ==
    /\ UNCHANGED <<sapi_vars, tls_ctx, finish_invocations, allocated>>
    /\ IF ~HasCtx(t) \/ send_chunk_rejects(Ctx(t), data, data_len)
       THEN /\ last' = Ev(t, "send_chunk", "done", 0,
                          [data |-> data, data_len |-> data_len])
            /\ UNCHANGED stack
       ELSE /\ stack' = [stack EXCEPT ![t] = Append(@,
                  [op |-> "send_chunk", ret |-> 1, stale |-> FALSE,
                   arg |-> [data |-> data, data_len |-> data_len]])]
            /\ last' = Ev(t, "send_chunk", "call", "pending",
                          [callback |-> Ctx(t).stream_callback,
                           ctx |-> Ctx(t).stream_ctx,
                           data |-> data, data_len |-> data_len])

tokio_bridge_get_stream_offset(t) ==
    IF ~HasCtx(t) THEN 0 ELSE Ctx(t).stream_offset

\* Mutant: the offset goes to the finish snapshot's output_offset.
tokio_bridge_set_stream_offset_finished(t, offset) ==
    /\ tls_ctx' = [tls_ctx EXCEPT
           ![t] = IF HasCtx(t)
                  THEN <<[Ctx(t) EXCEPT !.output_offset = offset]>>
                  ELSE <<>>]
    /\ last' = Ev(t, "set_stream_offset", "done", "void", [offset |-> offset])
    /\ UNCHANGED <<sapi_vars, stack, finish_invocations, allocated>>

tokio_bridge_set_stream_offset(t, offset) ==
    /\ tls_ctx' = [tls_ctx EXCEPT
           ![t] = IF HasCtx(t)
                  THEN <<[Ctx(t) EXCEPT !.stream_offset = offset]>>
                  ELSE <<>>]
    /\ last' = Ev(t, "set_stream_offset", "done", "void", [offset |-> offset])
    /\ UNCHANGED <<sapi_vars, stack, finish_invocations, allocated>>

\* Mutant: is_finished is cleared in place of is_streaming.
end_stream_ctx_wrong_flag(c) ==
    [c EXCEPT !.is_finished = 0,
              !.stream_offset = 0,
              !.stream_ctx = NULL,
              !.stream_callback = NULL]

\* Mutant: the callback and its ctx stay registered.
end_stream_ctx_keeps_callback(c) ==
    [c EXCEPT !.is_streaming = 0,
              !.stream_offset = 0]

\* The context after tokio_bridge_end_stream on a live context.
end_stream_ctx(c) ==
    [c EXCEPT !.is_streaming = 0,
              !.stream_offset = 0,
              !.stream_ctx = NULL,
              !.stream_callback = NULL]

tokio_bridge_end_stream(t) ==
    /\ tls_ctx' = [tls_ctx EXCEPT
           ![t] = IF HasCtx(t) THEN <<end_stream_ctx(Ctx(t))>> ELSE <<>>]
    /\ last' = Ev(t, "end_stream", "done", "void", <<>>)
    /\ UNCHANGED <<sapi_vars, stack, finish_invocations, allocated>>

(***************************************************************************)
(* Request context and header capture of the PHP extension (tokio_sapi.c). *)
(***************************************************************************)
HasReq(t) == tls_request_ctx[t] # <<>>
Req(t) == tls_request_ctx[t][1]

\* calloc(1, sizeof(tokio_request_context)) and http_response_code = 200.
NewRequestCtx ==
    [ post_data          |-> <<>>,
      post_data_len      |-> 0,
      post_data_read     |-> 0,
      headers            |-> <<>>,
      http_response_code |-> 200,
      request_id         |-> 0 ]

\* get_request_context: the slot after the call (the context is created on
\* first use, unless calloc fails).
get_request_context(slot, calloc_ok) ==
    IF slot # <<>> THEN slot
    ELSE IF calloc_ok THEN <<NewRequestCtx>> ELSE <<>>

\* free_request_context: the slot after the call.
free_request_context(slot) == <<>>

tokio_sapi_get_header_count(t) ==
    IF HasReq(t) THEN Len(Req(t).headers) ELSE 0

tokio_sapi_get_header_name(t, index) ==
    IF HasReq(t) /\ index >= 0 /\ index < Len(Req(t).headers)
    THEN Req(t).headers[index + 1].name ELSE <<>>

tokio_sapi_get_header_value(t, index) ==
    IF HasReq(t) /\ index >= 0 /\ index < Len(Req(t).headers)
    THEN Req(t).headers[index + 1].value ELSE <<>>

tokio_sapi_get_response_code(t) ==
    IF HasReq(t) THEN Req(t).http_response_code ELSE 200

\* The test of the replace loop of tokio_sapi_add_header on one entry.
sapi_header_matches(h, name, name_len) ==
    /\ h.name # <<>>
    /\ strncasecmp_eq(h.name[1], name, name_len)
    /\ strlen(h.name[1]) = name_len

SapiMatchIndex(hs, name, name_len) ==
    {i \in 1..Len(hs) :
        /\ sapi_header_matches(hs[i], name, name_len)
        /\ \A j \in 1..(i - 1) : ~sapi_header_matches(hs[j], name, name_len)}

\* tokio_sapi_add_header on the context c that get_request_context returned:
\* the context after the call.  name is a string (the function reads it
\* without a NULL check).
sapi_add_header_step(c, name, name_len, value, replace, malloc_name_ok, malloc_value_ok) ==
    IF Len(c.headers) >= TOKIO_MAX_HEADERS
    THEN c
    ELSE LET m == IF replace # 0
                  THEN SapiMatchIndex(c.headers, name, name_len) ELSE {} IN
         IF m # {}
         THEN LET i == CHOOSE i \in m : TRUE IN
              [c EXCEPT !.headers[i].value =
                            IF malloc_value_ok THEN <<value>> ELSE <<>>]
         ELSE IF malloc_name_ok /\ malloc_value_ok
         THEN [c EXCEPT !.headers = Append(@,
                  [name |-> <<SubSeq(name, 1, name_len)>>,
                   value |-> <<value>>])]
         ELSE c

tokio_sapi_add_header(t, name, name_len, value, replace, calloc_ok, malloc_name_ok, malloc_value_ok) ==
    /\ LET slot == get_request_context(tls_request_ctx[t], calloc_ok) IN
       tls_request_ctx' = [tls_request_ctx EXCEPT
           ![t] = IF slot = <<>> THEN <<>>
                  ELSE <<sapi_add_header_step(slot[1], name, name_len, value,
                             replace, malloc_name_ok, malloc_value_ok)>>]
    /\ last' = Ev(t, "sapi_add_header", "done", "void",
                  [name |-> name, name_len |-> name_len, value |-> value,
                   replace |-> replace, malloc_name_ok |-> malloc_name_ok,
                   malloc_value_ok |-> malloc_value_ok])
    /\ UNCHANGED <<bridge_vars, tls_request_id, php_vars, heartbeat_vars,
                 superglobal_vars>>

\* tokio_sapi_set_response_code.
tokio_sapi_set_response_code(t, code, calloc_ok) ==
    /\ LET slot == get_request_context(tls_request_ctx[t], calloc_ok) IN
       tls_request_ctx' = [tls_request_ctx EXCEPT
           ![t] = IF slot = <<>> THEN <<>>
                  ELSE <<[slot[1] EXCEPT !.http_response_code = code]>>]
    /\ last' = Ev(t, "sapi_set_response_code", "done", "void", [code |-> code])
    /\ UNCHANGED <<bridge_vars, tls_request_id, php_vars, heartbeat_vars,
                   superglobal_vars>>

\* ctx->post_data = NULL;
request_init_post_data(post_data) == <<>>

\* tokio_sapi_set_post_data on the context get_request_context returned.
set_post_data_step(c, data, len, malloc_ok) ==
    IF data # <<>> /\ len > 0
    THEN [c EXCEPT !.post_data = IF malloc_ok THEN <<SubSeq(data[1], 1, len)>>
                                 ELSE <<>>,
                   !.post_data_len = IF malloc_ok THEN len ELSE 0,
                   !.post_data_read = 0]
    ELSE [c EXCEPT !.post_data = <<>>, !.post_data_len = 0,
                   !.post_data_read = 0]

\* tokio_sapi_set_post_data.  The request body stream of the engine is not
\* part of the model.
tokio_sapi_set_post_data(t, data, len, calloc_ok, malloc_ok) ==
    /\ LET slot == get_request_context(tls_request_ctx[t], calloc_ok) IN
       tls_request_ctx' = [tls_request_ctx EXCEPT
           ![t] = IF slot = <<>> THEN <<>>
                  ELSE <<set_post_data_step(slot[1], data, len, malloc_ok)>>]
    /\ last' = Ev(t, "sapi_set_post_data", "done", "void",
                  [data |-> data, len |-> len, malloc_ok |-> malloc_ok])
    /\ UNCHANGED <<bridge_vars, tls_request_id, php_vars, heartbeat_vars,
                   superglobal_vars>>

\* tokio_sapi_request_init; the return value is SUCCESS (0) or FAILURE (-1).
tokio_sapi_request_init(t, request_id, calloc_ok) ==
    /\ LET slot == get_request_context(
                       free_request_context(tls_request_ctx[t]), calloc_ok) IN
       IF slot = <<>>
       THEN /\ tls_request_ctx' = [tls_request_ctx EXCEPT ![t] = <<>>]
            /\ UNCHANGED tls_request_id
            /\ last' = Ev(t, "sapi_request_init", "done", -1,
                          [request_id |-> request_id,
                           held |-> tokio_sapi_get_header_count(t),
                           code |-> tokio_sapi_get_response_code(t)])
       ELSE /\ tls_request_ctx' = [tls_request_ctx EXCEPT
                   ![t] = <<[slot[1] EXCEPT !.request_id = request_id,
                                            !.http_response_code = 200,
                                            !.headers = <<>>,
                                            !.post_data =
                                                request_init_post_data(@),
                                            !.post_data_len = 0,
                                            !.post_data_read = 0]>>]
            /\ tls_request_id' = [tls_request_id EXCEPT ![t] = request_id]
            /\ last' = Ev(t, "sapi_request_init", "done", 0,
                          [request_id |-> request_id,
                           held |-> tokio_sapi_get_header_count(t),
                           code |-> tokio_sapi_get_response_code(t)])
    /\ UNCHANGED <<bridge_vars, php_vars, heartbeat_vars, superglobal_vars>>

(***************************************************************************)
(* serialize_sapi_headers (tokio_sapi.c): the header blob built from the   *)
(* bridge ledger for the finish callback.                                  *)
(***************************************************************************)
\* An entry the two passes take: tokio_bridge_get_header succeeded and
\* neither pointer is NULL.
serialize_takes(h) == h.ret # 0 /\ h.name # <<>> /\ h.value # <<>>

\* First pass: the buffer size.
RECURSIVE serialize_total_len(_, _, _)
serialize_total_len(t, i, num_headers) ==
    IF i >= num_headers THEN 0
    ELSE LET h == tokio_bridge_get_header(t, i) IN
         (IF serialize_takes(h)
          THEN strlen(h.name[1]) + 1 + strlen(h.value[1]) + 1
          ELSE 0)
         + serialize_total_len(t, i + 1, num_headers)

\* Second pass: buf is what has been written, ptr is the write position
\* (as an offset from buf), header_count the pairs written.
RECURSIVE serialize_copy(_, _, _, _)
serialize_copy(t, i, num_headers, acc) ==
    IF i >= num_headers THEN acc
    ELSE LET h == tokio_bridge_get_header(t, i) IN
         IF ~serialize_takes(h)
         THEN serialize_copy(t, i + 1, num_headers, acc)
         ELSE serialize_copy(t, i + 1, num_headers,
                  [buf |-> acc.buf \o h.name[1] \o <<NUL>>
                                   \o h.value[1] \o <<NUL>>,
                   ptr |-> acc.ptr + strlen(h.name[1]) + 1
                                   + strlen(h.value[1]) + 1,
                   header_count |-> acc.header_count + 1])

\* The returned buffer (<<>> is NULL) and the two output parameters.
serialize_sapi_headers(t, malloc_ok) ==
    LET num_headers == tokio_bridge_get_header_count(t)
        none == [buf |-> <<>>, len |-> 0, count |-> 0] IN
    IF num_headers = 0 THEN none
    ELSE IF serialize_total_len(t, 0, num_headers) = 0 THEN none
    ELSE IF ~malloc_ok THEN none
    ELSE LET a == serialize_copy(t, 0, num_headers,
                      [buf |-> <<>>, ptr |-> 0, header_count |-> 0]) IN
         [buf |-> <<a.buf>>, len |-> a.ptr, count |-> a.header_count]

\* A call of serialize_sapi_headers.
SerializeHeaders(t, malloc_ok) ==
    /\ last' = Ev(t, "serialize_sapi_headers", "done",
                  serialize_sapi_headers(t, malloc_ok),
                  [malloc_ok |-> malloc_ok])
    /\ UNCHANGED <<sapi_vars, bridge_vars>>

(***************************************************************************)
(* The PHP output layer as the extension uses it.  An output state o is    *)
(* [ob, memfd]: the stack of PHP output buffers (the last one is the       *)
(* active buffer) and the bytes that reached STDOUT_FILENO.                *)
(***************************************************************************)
Out(t) == [ob |-> php[t].ob, memfd |-> memfd]

\* Mutant: output is written whether the request is finished or not.
ub_write_keeps(m, data, finished) == m \o data

\* The SAPI's unbuffered write: output of a finished request is discarded.
ub_write(m, data, finished) ==
    IF finished # 0 THEN m ELSE m \o data

\* php_output_write: into the active buffer, or to ub_write with none.
php_output_write(o, data, finished) ==
    IF Len(o.ob) > 0
    THEN [o EXCEPT !.ob[Len(o.ob)] = @ \o data]
    ELSE [o EXCEPT !.memfd = ub_write(@, data, finished)]

php_output_get_level(o) == Len(o.ob)

\* php_output_flush: the active buffer is emptied into the level below it
\* and stays open.
php_output_flush(o, finished) ==
    IF Len(o.ob) = 0 THEN o
    ELSE LET below == [o EXCEPT !.ob = SubSeq(@, 1, Len(@) - 1)]
             w == php_output_write(below, o.ob[Len(o.ob)], finished) IN
         [w EXCEPT !.ob = Append(@, <<>>)]

\* php_output_end: the active buffer is emptied into the level below it
\* and closed.
php_output_end(o, finished) ==
    IF Len(o.ob) = 0 THEN o
    ELSE php_output_write([o EXCEPT !.ob = SubSeq(@, 1, Len(@) - 1)],
                          o.ob[Len(o.ob)], finished)

php_output_start_default(o) == [o EXCEPT !.ob = Append(@, <<>>)]

\* The script writes one byte; the byte says whether tokio_finish_request
\* had returned true before ("z") or not ("a").
php_echo(t) ==
    /\ LET byte == IF php[t].finish_returned THEN "z" ELSE "a"
           o == php_output_write(Out(t), <<byte>>, tokio_bridge_is_finished(t)) IN
       /\ php' = [php EXCEPT ![t].ob = o.ob, ![t].echoed = Append(@, byte)]
       /\ memfd' = o.memfd
       /\ last' = Ev(t, "echo", "done", "void", [data |-> <<byte>>])
    /\ UNCHANGED <<tls_request_ctx, tls_request_id, heartbeat_vars,
                 superglobal_vars, bridge_vars>>

\* The script opens an output buffer (ob_start).
php_ob_start(t) ==
    /\ php' = [php EXCEPT ![t].ob = php_output_start_default(Out(t)).ob]
    /\ last' = Ev(t, "ob_start", "done", "void", <<>>)
    /\ UNCHANGED <<memfd, tls_request_ctx, tls_request_id, heartbeat_vars,
                 superglobal_vars, bridge_vars>>

\* The script closes its active output buffer (ob_end_flush).
php_ob_end_flush(t) ==
    /\ LET o == php_output_end(Out(t), tokio_bridge_is_finished(t)) IN
       /\ php' = [php EXCEPT ![t].ob = o.ob]
       /\ memfd' = o.memfd
    /\ last' = Ev(t, "ob_end_flush", "done", "void", <<>>)
    /\ UNCHANGED <<tls_request_ctx, tls_request_id, heartbeat_vars,
                 superglobal_vars, bridge_vars>>

(***************************************************************************)
(* tokio_finish_request (tokio_sapi.c).                                    *)
(***************************************************************************)
\* Mutant: the finished flag is not looked at.
finish_request_already_never(t) == FALSE

\* "Already finished? Return true (idempotent)".
finish_request_already(t) == tokio_bridge_is_finished(t) # 0

\* Step 1: while (php_output_get_level() > 0) php_output_end().
RECURSIVE finish_request_end_buffers(_, _)
finish_request_end_buffers(o, finished) ==
    IF php_output_get_level(o) > 0
    THEN finish_request_end_buffers(php_output_end(o, finished), finished)
    ELSE o

\* tokio_bridge_trigger_stream_finish on a live context: marks the request
\* finished and invokes the stream finish callback; 0 when the request is
\* finished already or no callback is registered.
trigger_stream_finish_step(c, callback) ==
    IF c.is_finished # 0 \/ callback = NULL
    THEN [ctx |-> c, ret |-> 0]
    ELSE [ctx |-> [c EXCEPT !.is_finished = 1], ret |-> 1]

\* RETURN_BOOL(result != 0).
finish_request_ret(result) == result # 0

\* tokio_finish_request() up to its return or to the invocation of the
\* stream finish callback; callback is the registered stream finish
\* callback.
tokio_finish_request(t, callback) ==
    /\ UNCHANGED <<tls_request_ctx, tls_request_id, heartbeat_vars,
                 superglobal_vars, finish_invocations, allocated>>
    /\ IF finish_request_already(t)
       THEN /\ last' = Ev(t, "finish_request", "done", TRUE, <<>>)
            /\ php' = [php EXCEPT ![t].finish_returned = TRUE]
            /\ UNCHANGED <<memfd, tls_ctx, stack>>
       ELSE LET o == finish_request_end_buffers(Out(t), tokio_bridge_is_finished(t))
                r == IF HasCtx(t)
                     THEN trigger_stream_finish_step(Ctx(t), callback)
                     ELSE [ctx |-> <<>>, ret |-> 0] IN
            /\ memfd' = o.memfd
            /\ tls_ctx' = [tls_ctx EXCEPT
                   ![t] = IF HasCtx(t) THEN <<r.ctx>> ELSE <<>>]
            /\ IF r.ret = 0
               THEN /\ php' = [php EXCEPT
                           ![t].ob = php_output_start_default(o).ob]
                    /\ last' = Ev(t, "finish_request", "done",
                                  finish_request_ret(r.ret), <<>>)
                    /\ UNCHANGED stack
               ELSE /\ php' = [php EXCEPT ![t].ob = o.ob]
                    /\ stack' = [stack EXCEPT ![t] = Append(@,
                          [op |-> "finish_request", ret |-> r.ret,
                           stale |-> FALSE, arg |-> <<>>])]
                    /\ last' = Ev(t, "finish_request", "call", "pending",
                                  [callback |-> callback])

\* The stream finish callback returns: step 3 and the return value.
FinishRequestReturn(t) ==
    /\ stack[t] # <<>>
    /\ LET f == stack[t][Len(stack[t])] IN
       /\ f.op = "finish_request"
       /\ last' = Ev(t, f.op, "return", finish_request_ret(f.ret), f.arg)
       /\ php' = [php EXCEPT
              ![t].ob = php_output_start_default(Out(t)).ob,
              ![t].finish_returned = @ \/ finish_request_ret(f.ret)]
    /\ stack' = [stack EXCEPT ![t] = SubSeq(@, 1, Len(@) - 1)]
    /\ UNCHANGED <<memfd, tls_request_ctx, tls_request_id, heartbeat_vars,
                 superglobal_vars, tls_ctx,
                   finish_invocations, allocated>>

(***************************************************************************)
(* Flushing (tokio_sapi.c): get_output_since_offset, tokio_sapi_flush and  *)
(* tokio_stream_flush.                                                     *)
(***************************************************************************)
\* The bytes of STDOUT_FILENO from *offset to the current position, and
\* the new *offset; data is <<>> (NULL) when there is nothing new or the
\* allocation fails.
get_output_since_offset(m, offset, malloc_ok) ==
    LET end_pos == Len(m) IN
    IF end_pos <= offset \/ ~malloc_ok
    THEN [data |-> <<>>, len |-> 0, offset |-> offset]
    ELSE [data |-> <<SubSeq(m, offset + 1, end_pos)>>,
          len |-> end_pos - offset,
          offset |-> end_pos]

\* The buffer loop of tokio_sapi_flush, with its safety limit.
RECURSIVE sapi_flush_buffers(_, _, _)
sapi_flush_buffers(o, finished, flush_count) ==
    IF php_output_get_level(o) > 0
    THEN IF flush_count + 1 > 10
         THEN php_output_flush(o, finished)
         ELSE sapi_flush_buffers(php_output_flush(o, finished), finished,
                                 flush_count + 1)
    ELSE o

\* Steps 2 to 5 of both flush functions, up to their return or to the
\* invocation of the stream callback: o is the output state after the
\* buffers were flushed, done_ret the value returned with no new data,
\* refused_ret and sent_ret the values returned after
\* tokio_bridge_send_chunk returned 0 and 1, during and after the values
\* of flush_in_progress while the stream callback runs and at the return.
flush_send(t, op, o, malloc_ok, done_ret, refused_ret, sent_ret, during, after) ==
    LET g == get_output_since_offset(o.memfd, tokio_bridge_get_stream_offset(t),
                                     malloc_ok) IN
    /\ memfd' = o.memfd
    /\ UNCHANGED <<tls_request_ctx, tls_request_id, heartbeat_vars,
                 superglobal_vars, finish_invocations, allocated>>
    /\ IF g.data = <<>> \/ g.len = 0
       THEN /\ php' = [php EXCEPT ![t].ob = o.ob,
                                       ![t].flush_in_progress = after]
            /\ last' = Ev(t, op, "done", done_ret,
                          [data |-> <<>>, malloc_ok |-> malloc_ok])
            /\ UNCHANGED <<tls_ctx, stack>>
       ELSE IF ~HasCtx(t) \/ send_chunk_rejects(Ctx(t), g.data, g.len)
       THEN /\ php' = [php EXCEPT ![t].ob = o.ob,
                                       ![t].flush_in_progress = after]
            /\ tls_ctx' = [tls_ctx EXCEPT
                   ![t] = IF HasCtx(t)
                          THEN <<[Ctx(t) EXCEPT !.stream_offset = g.offset]>>
                          ELSE <<>>]
            /\ last' = Ev(t, op, "done", refused_ret,
                          [data |-> g.data, malloc_ok |-> malloc_ok])
            /\ UNCHANGED stack
       ELSE /\ php' = [php EXCEPT ![t].ob = o.ob,
                                       ![t].flush_in_progress = during]
            /\ stack' = [stack EXCEPT ![t] = Append(@,
                  [op |-> op, ret |-> sent_ret, stale |-> FALSE,
                   arg |-> [data |-> g.data, data_len |-> g.len,
                            offset |-> g.offset]])]
            /\ last' = Ev(t, op, "call", "pending",
                          [callback |-> Ctx(t).stream_callback,
                           ctx |-> Ctx(t).stream_ctx,
                           data |-> g.data, data_len |-> g.len])
            /\ UNCHANGED tls_ctx

sapi_flush_ret(result) == "void"

\* tokio_sapi_flush: the SAPI flush handler behind PHP's flush().
tokio_sapi_flush(t, malloc_ok) ==
    IF php[t].flush_in_progress # 0 \/ tokio_bridge_is_streaming(t) = 0
    THEN /\ last' = Ev(t, "sapi_flush", "done", "void", [data |-> <<>>])
         /\ UNCHANGED <<sapi_vars, bridge_vars>>
    ELSE flush_send(t, "sapi_flush",
                    sapi_flush_buffers(Out(t), tokio_bridge_is_finished(t), 0),
                    malloc_ok, "void", sapi_flush_ret(0), sapi_flush_ret(1),
                    1, 0)

\* Mutant: the handler does not look at flush_in_progress.
sapi_flush_busy_never(t) == FALSE

\* "Prevent recursive calls": another tokio_sapi_flush is in progress.
sapi_flush_busy(t) == php[t].flush_in_progress # 0

\* tokio_sapi_flush from its entry to the buffer loop: the two early
\* returns, or flush_in_progress = 1.  The handler is entered by flush(),
\* and by the PHP engine after an unbuffered write when implicit flush is
\* on, also from inside the buffer loop of a flush that is in progress.
tokio_sapi_flush_enter(t) ==
    /\ UNCHANGED <<memfd, tls_request_ctx, tls_request_id, heartbeat_vars,
                 superglobal_vars, bridge_vars>>
    /\ IF sapi_flush_busy(t)
       THEN /\ last' = Ev(t, "sapi_flush", "busy", "void", [data |-> <<>>,
                           in_progress |-> php[t].flush_in_progress])
            /\ UNCHANGED php
       ELSE IF tokio_bridge_is_streaming(t) = 0
       THEN /\ last' = Ev(t, "sapi_flush", "done", "void", [data |-> <<>>,
                           in_progress |-> php[t].flush_in_progress])
            /\ UNCHANGED php
       ELSE /\ last' = Ev(t, "sapi_flush", "enter", "pending", [data |-> <<>>,
                           in_progress |-> php[t].flush_in_progress])
            /\ php' = [php EXCEPT ![t].flush_in_progress = 1]

\* tokio_sapi_flush from the buffer loop to its return or to the
\* invocation of the stream callback.
tokio_sapi_flush_body(t, malloc_ok) ==
    /\ php[t].flush_in_progress = 1
    /\ flush_send(t, "sapi_flush",
                  sapi_flush_buffers(Out(t), tokio_bridge_is_finished(t), 0),
                  malloc_ok, "void", sapi_flush_ret(0), sapi_flush_ret(1),
                  1, 0)

\* RETURN_BOOL(result != 0).
stream_flush_ret(result) == result # 0

\* tokio_stream_flush(): with an output buffer open its buffer loop never
\* ends, because php_output_flush leaves the buffer open.
tokio_stream_flush(t, malloc_ok) ==
    IF tokio_bridge_is_streaming(t) = 0
    THEN /\ last' = Ev(t, "stream_flush", "done", FALSE, [data |-> <<>>])
         /\ UNCHANGED <<sapi_vars, bridge_vars>>
    ELSE IF php_output_get_level(Out(t)) > 0
    THEN LET o == php_output_flush(Out(t), tokio_bridge_is_finished(t)) IN
         /\ php' = [php EXCEPT ![t].ob = o.ob, ![t].spin = TRUE]
         /\ memfd' = o.memfd
         /\ last' = Ev(t, "stream_flush", "spin", "never", [data |-> <<>>])
         /\ UNCHANGED <<tls_request_ctx, tls_request_id, heartbeat_vars,
                 superglobal_vars, bridge_vars>>
    ELSE flush_send(t, "stream_flush", Out(t), malloc_ok, TRUE,
                    stream_flush_ret(0), stream_flush_ret(1),
                    php[t].flush_in_progress, php[t].flush_in_progress)

\* The stream callback invoked by a flush returns: the stream offset is
\* set and the flush function returns.
FlushReturn(t) ==
    /\ stack[t] # <<>>
    /\ LET f == stack[t][Len(stack[t])] IN
       /\ f.op \in {"sapi_flush", "stream_flush"}
       /\ last' = Ev(t, f.op, "return", f.ret, f.arg)
       /\ tls_ctx' = [tls_ctx EXCEPT
              ![t] = IF HasCtx(t)
                     THEN <<[Ctx(t) EXCEPT !.stream_offset = f.arg.offset]>>
                     ELSE <<>>]
       /\ php' = [php EXCEPT
              ![t].flush_in_progress =
                  IF f.op = "sapi_flush" THEN 0 ELSE @]
    /\ stack' = [stack EXCEPT ![t] = SubSeq(@, 1, Len(@) - 1)]
    /\ UNCHANGED <<memfd, tls_request_ctx, tls_request_id, heartbeat_vars,
                 superglobal_vars,
                   finish_invocations, allocated>>

(***************************************************************************)
(* Superglobals (tokio_sapi.c).  EG(symbol_table) is [gen, arrs]: gen      *)
(* counts the symbol tables the engine has built on the thread, arrs maps  *)
(* a track_var (6 is _REQUEST) to the array's entries, a set of            *)
(* <<key, value>> with one value per key.  A zval* is <<>> (NULL) or       *)
(* <<p>>, p = <<gen, track_var>> naming an array of symbol table gen; it   *)
(* dangles once the engine has built another table.                        *)
(***************************************************************************)
TRACK_VARS_POST == 0
TRACK_VARS_GET == 1
TRACK_VARS_COOKIE == 2
TRACK_VARS_SERVER == 3
TRACK_VARS_FILES == 5
TrackVars == 0..5
REQUEST == 6

\* zend_hash_str_update on an array's entries.
zend_hash_str_update(arr, key, val) ==
    {e \in arr : e[1] # key} \cup {<<key, val>>}

\* get_superglobal_from_symtable: the array of the current symbol table
\* (found, auto-initialised or created).
get_superglobal_from_symtable(st, track_var) ==
    IF track_var < 0 \/ track_var > 5 THEN <<>>
    ELSE <<<<st.gen, track_var>>>>

\* clear_superglobal: zend_hash_clean of the array in the symbol table.
clear_superglobal(st, track_var) ==
    IF track_var < 0 \/ track_var > 5 THEN st
    ELSE [st EXCEPT !.arrs[track_var] = {}]

\* The cache of a thread as one value.
Cache(t) == [initialized |-> superglobals_initialized[t],
             arrs |-> cached_superglobal_arrs[t]]

\* Mutant: only the flag is cleared.
reset_superglobal_cache_flag_only(c) == [c EXCEPT !.initialized = 0]

reset_superglobal_cache(c) ==
    [initialized |-> 0, arrs |-> [i \in TrackVars |-> <<>>]]

\* tokio_sapi_init_superglobals on cache c: the cache after the call.
init_superglobals(c, st) ==
    IF c.initialized # 0 THEN c
    ELSE [initialized |-> 1,
          arrs |-> [i \in TrackVars |-> get_superglobal_from_symtable(st, i)]]

\* get_cached_superglobal: the cache after the call and the pointer
\* returned.
get_cached_superglobal(c, st, track_var) ==
    IF track_var < 0 \/ track_var > 5 THEN [cache |-> c, arr |-> <<>>]
    ELSE LET c1 == IF c.initialized = 0 THEN init_superglobals(c, st) ELSE c IN
         [cache |-> c1, arr |-> c1.arrs[track_var]]

\* set_nested_array_value for a key without '[': nothing for an empty key,
\* a direct update otherwise.
set_nested_array_value(arr, key, val) ==
    IF Len(key) = 0 THEN arr ELSE zend_hash_str_update(arr, key, val)

(***************************************************************************)
(* set_superglobal_batch (tokio_sapi.c).  A buffer is a sequence of bytes, *)
(* its first byte at offset 0; ptr and end are offsets into it, which do   *)
(* not wrap (a pointer is wider than the 32-bit lengths added to it).      *)
(***************************************************************************)
\* The byte at an offset; past the bytes that exist the model reads 0.
Byte(buffer, off) == IF off < Len(buffer) THEN buffer[off + 1] ELSE 0

\* memcpy(&x, ptr, 4) into a uint32_t on a little-endian machine.
U32(buffer, ptr) ==
    Byte(buffer, ptr) + 256 * Byte(buffer, ptr + 1)
        + 65536 * Byte(buffer, ptr + 2) + 16777216 * Byte(buffer, ptr + 3)

Bytes(buffer, from, n) == [i \in 1..n |-> Byte(buffer, from + i - 1)]

\* if (key_len == 0 || ptr + key_len > end) break;
batch_key_rejected(ptr, key_len, end) == key_len = 0 \/ ptr + key_len > end

\* Mutant: the value is not checked against end.
batch_val_truncated_unchecked(ptr, val_len, end) == FALSE

\* if (ptr + val_len > end) break;
batch_val_truncated(ptr, val_len, end) == ptr + val_len > end

\* The loop of set_superglobal_batch from iteration i on.  s is [ptr, set,
\* reads]: the position, the <<key, val>> handed to the array so far and
\* the offsets read so far.
RECURSIVE batch_loop(_, _, _, _, _)
batch_loop(buffer, end, count, i, s) ==
    IF ~(i < count /\ s.ptr + 4 <= end) THEN s
    ELSE LET key_len == U32(buffer, s.ptr)
             key_at == s.ptr + 4
             r1 == s.reads \cup (s.ptr .. (s.ptr + 3)) IN
         IF batch_key_rejected(key_at, key_len, end)
         THEN [s EXCEPT !.ptr = key_at, !.reads = r1]
         ELSE LET key_str_len == key_len - 1
                  len_at == key_at + key_len IN
              IF len_at + 4 > end
              THEN [s EXCEPT !.ptr = len_at, !.reads = r1]
              ELSE LET val_len == U32(buffer, len_at)
                       val_at == len_at + 4
                       r2 == r1 \cup (len_at .. (len_at + 3)) IN
                   IF batch_val_truncated(val_at, val_len, end)
                   THEN [s EXCEPT !.ptr = val_at, !.reads = r2]
                   ELSE batch_loop(buffer, end, count, i + 1,
                            [ptr |-> val_at + val_len,
                             set |-> Append(s.set,
                                 <<Bytes(buffer, key_at, key_str_len),
                                   Bytes(buffer, val_at, val_len)>>),
                             reads |-> r2
                                 \cup (key_at .. (key_at + key_str_len - 1))
                                 \cup (val_at .. (val_at + val_len - 1))])

\* The entries of an array after the records of set were handed to it.
RECURSIVE batch_apply(_, _, _)
batch_apply(arr, set, parse_brackets) ==
    IF set = <<>> THEN arr
    ELSE batch_apply(
             IF parse_brackets # 0
             THEN set_nested_array_value(arr, set[1][1], set[1][2])
             ELSE zend_hash_str_update(arr, set[1][1], set[1][2]),
             Tail(set), parse_brackets)

\* set_superglobal_batch on cache c and symbol table st.  The result is the
\* cache and the symbol table after the call, the return value, the array
\* pointer used and the offsets read.  A dangling array pointer is a write
\* into freed memory: the entries go nowhere or, when the allocator has
\* handed the block to the new array (reused), into that array.
set_superglobal_batch(c, st, track_var, buffer, buffer_len, count, parse_brackets, reused) ==
    LET g == get_cached_superglobal(c, st, track_var) IN
    IF g.arr = <<>>
    THEN [cache |-> g.cache, st |-> st, ret |-> 0, arr |-> g.arr, reads |-> {}]
    ELSE LET s == batch_loop(buffer, buffer_len, count, 0,
                             [ptr |-> 0, set |-> <<>>, reads |-> {}])
             lands == g.arr[1][1] = st.gen \/ reused IN
         [cache |-> g.cache,
          st |-> IF lands
                 THEN [st EXCEPT !.arrs[track_var] =
                          batch_apply(@, s.set, parse_brackets)]
                 ELSE st,
          ret |-> Len(s.set), arr |-> g.arr, reads |-> s.reads]

\* The four public batch functions: name, track_var, parse_brackets.
BatchApis ==
    {<<"set_server_vars_batch", TRACK_VARS_SERVER, 0>>,
     <<"set_get_vars_batch", TRACK_VARS_GET, 1>>,
     <<"set_post_vars_batch", TRACK_VARS_POST, 1>>,
     <<"set_cookie_vars_batch", TRACK_VARS_COOKIE, 1>>}

\* tokio_sapi_set_{server,get,post,cookie}_vars_batch.
tokio_sapi_set_vars_batch(t, api, buffer, buffer_len, count, reused) ==
    /\ LET r == set_superglobal_batch(Cache(t), symbol_table[t], api[2],
                    buffer, buffer_len, count, api[3], reused) IN
       /\ superglobals_initialized' =
              [superglobals_initialized EXCEPT ![t] = r.cache.initialized]
       /\ cached_superglobal_arrs' =
              [cached_superglobal_arrs EXCEPT ![t] = r.cache.arrs]
       /\ symbol_table' = [symbol_table EXCEPT ![t] = r.st]
       /\ last' = Ev(t, api[1], "done", r.ret,
                     [buffer |-> buffer, buffer_len |-> buffer_len,
                      count |-> count, track_var |-> api[2],
                      parse_brackets |-> api[3], arr |-> r.arr,
                      reads |-> r.reads,
                      resolved |-> superglobals_initialized[t] = 0])
    /\ UNCHANGED <<bridge_vars, tls_request_ctx, tls_request_id, php_vars,
                   heartbeat_vars, sapi_headers>>

\* tokio_sapi_init_superglobals.
tokio_sapi_init_superglobals(t) ==
    /\ LET c == init_superglobals(Cache(t), symbol_table[t]) IN
       /\ superglobals_initialized' =
              [superglobals_initialized EXCEPT ![t] = c.initialized]
       /\ cached_superglobal_arrs' =
              [cached_superglobal_arrs EXCEPT ![t] = c.arrs]
    /\ last' = Ev(t, "init_superglobals", "done", "void", <<>>)
    /\ UNCHANGED <<bridge_vars, tls_request_ctx, tls_request_id, php_vars,
                   heartbeat_vars, symbol_table, sapi_headers>>

\* The clearing both tokio_sapi_clear_superglobals and
\* tokio_sapi_set_all_superglobals start with.
clear_all_superglobals(st) ==
    LET a == clear_superglobal(st, TRACK_VARS_GET)
        b == clear_superglobal(a, TRACK_VARS_POST)
        c == clear_superglobal(b, TRACK_VARS_SERVER)
        d == clear_superglobal(c, TRACK_VARS_COOKIE)
        e == clear_superglobal(d, TRACK_VARS_FILES) IN
    [e EXCEPT !.arrs[REQUEST] = {}]

\* tokio_sapi_clear_superglobals.
tokio_sapi_clear_superglobals(t) ==
    /\ symbol_table' =
           [symbol_table EXCEPT ![t] = clear_all_superglobals(@)]
    /\ LET c == reset_superglobal_cache(Cache(t)) IN
       /\ superglobals_initialized' =
              [superglobals_initialized EXCEPT ![t] = c.initialized]
       /\ cached_superglobal_arrs' =
              [cached_superglobal_arrs EXCEPT ![t] = c.arrs]
    /\ last' = Ev(t, "clear_superglobals", "done", "void", <<>>)
    /\ UNCHANGED <<bridge_vars, tls_request_ctx, tls_request_id, php_vars,
                   heartbeat_vars, sapi_headers>>

\* tokio_sapi_build_request: $_REQUEST is $_GET overwritten by $_POST.
build_request(st) ==
    LET get == st.arrs[TRACK_VARS_GET]
        post == st.arrs[TRACK_VARS_POST] IN
    [st EXCEPT !.arrs[REQUEST] =
        {e \in get : \A p \in post : p[1] # e[1]} \cup post]

\* tokio_sapi_init_request_state on SG(sapi_headers).
init_request_state(sh) == [headers |-> 0, http_response_code |-> 200]

\* tokio_sapi_set_all_superglobals with the four buffers b = <<server, get,
\* post, cookie>>, each [buf, len, count].
tokio_sapi_set_all_superglobals(t, b) ==
    /\ LET st0 == clear_all_superglobals(symbol_table[t])
           c0 == init_superglobals(reset_superglobal_cache(Cache(t)), st0)
           r1 == IF b[1].count > 0
                 THEN set_superglobal_batch(c0, st0, TRACK_VARS_SERVER,
                          b[1].buf, b[1].len, b[1].count, 0, FALSE)
                 ELSE [cache |-> c0, st |-> st0]
           r2 == IF b[2].count > 0
                 THEN set_superglobal_batch(r1.cache, r1.st, TRACK_VARS_GET,
                          b[2].buf, b[2].len, b[2].count, 1, FALSE)
                 ELSE [cache |-> r1.cache, st |-> r1.st]
           r3 == IF b[3].count > 0
                 THEN set_superglobal_batch(r2.cache, r2.st, TRACK_VARS_POST,
                          b[3].buf, b[3].len, b[3].count, 1, FALSE)
                 ELSE [cache |-> r2.cache, st |-> r2.st]
           r4 == IF b[4].count > 0
                 THEN set_superglobal_batch(r3.cache, r3.st, TRACK_VARS_COOKIE,
                          b[4].buf, b[4].len, b[4].count, 1, FALSE)
                 ELSE [cache |-> r3.cache, st |-> r3.st] IN
       /\ superglobals_initialized' =
              [superglobals_initialized EXCEPT ![t] = r4.cache.initialized]
       /\ cached_superglobal_arrs' =
              [cached_superglobal_arrs EXCEPT ![t] = r4.cache.arrs]
       /\ symbol_table' = [symbol_table EXCEPT ![t] = build_request(r4.st)]
    /\ sapi_headers' = [sapi_headers EXCEPT ![t] = init_request_state(@)]
    /\ php' = [php EXCEPT
           ![t].ob = IF php_output_get_level(Out(t)) = 0
                     THEN php_output_start_default(Out(t)).ob ELSE @]
    /\ last' = Ev(t, "set_all_superglobals", "done", "void",
                  [stale |-> \E i \in TrackVars :
                       /\ cached_superglobal_arrs[t][i] # <<>>
                       /\ cached_superglobal_arrs[t][i][1][1]
                              # symbol_table[t].gen])
    /\ UNCHANGED <<bridge_vars, tls_request_ctx, tls_request_id, memfd,
                   heartbeat_vars>>

\* The engine ends a request (php_request_shutdown): the symbol table is
\* destroyed and the next request gets a new one.
php_request_shutdown(t) ==
    /\ symbol_table[t].gen < MaxRequests
    /\ symbol_table' = [symbol_table EXCEPT
           ![t] = [gen |-> @.gen + 1, arrs |-> [i \in 0..6 |-> {}]]]
    /\ last' = Ev(t, "php_request_shutdown", "done", "void", <<>>)
    /\ UNCHANGED <<bridge_vars, tls_request_ctx, tls_request_id, php_vars,
                   heartbeat_vars, superglobals_initialized,
                   cached_superglobal_arrs, sapi_headers>>

\* The script sends a header (header()): SG(sapi_headers) gets an entry
\* and a response code.
php_header(t, code) ==
    /\ sapi_headers' = [sapi_headers EXCEPT
           ![t] = [headers |-> 1, http_response_code |-> code]]
    /\ last' = Ev(t, "header", "done", "void", [code |-> code])
    /\ UNCHANGED <<bridge_vars, tls_request_ctx, tls_request_id, php_vars,
                   heartbeat_vars, superglobals_initialized,
                   cached_superglobal_arrs, symbol_table>>

(***************************************************************************)
(* Request shutdown and the heartbeat statics (tokio_sapi.c).              *)
(***************************************************************************)
\* tokio_sapi_set_heartbeat_ctx.
tokio_sapi_set_heartbeat_ctx(t, ctx, max_secs, callback) ==
    /\ tls_heartbeat_ctx' = [tls_heartbeat_ctx EXCEPT ![t] = ctx]
    /\ tls_heartbeat_max_secs' = [tls_heartbeat_max_secs EXCEPT ![t] = max_secs]
    /\ tls_heartbeat_callback' = [tls_heartbeat_callback EXCEPT ![t] = callback]
    /\ last' = Ev(t, "set_heartbeat_ctx", "done", "void",
                  [ctx |-> ctx, max_secs |-> max_secs, callback |-> callback])
    /\ UNCHANGED <<bridge_vars, tls_request_ctx, tls_request_id, php_vars,
                   superglobal_vars>>

tokio_sapi_get_heartbeat_ctx(t) == tls_heartbeat_ctx[t]

tokio_sapi_get_heartbeat_max_secs(t) == tls_heartbeat_max_secs[t]

\* Mutant: the request id survives the shutdown.
shutdown_request_id_kept(id) == id

\* tls_request_id = 0;
shutdown_request_id(id) == 0

\* tokio_sapi_request_shutdown.  The request body stream of the engine is
\* not part of the model.
tokio_sapi_request_shutdown(t) ==
    /\ tls_request_ctx' = [tls_request_ctx EXCEPT
           ![t] = free_request_context(@)]
    /\ tls_request_id' = [tls_request_id EXCEPT ![t] = shutdown_request_id(@)]
    /\ tls_heartbeat_ctx' = [tls_heartbeat_ctx EXCEPT ![t] = NULL]
    /\ tls_heartbeat_max_secs' = [tls_heartbeat_max_secs EXCEPT ![t] = 0]
    /\ tls_heartbeat_callback' = [tls_heartbeat_callback EXCEPT ![t] = NULL]
    /\ LET c == reset_superglobal_cache(Cache(t)) IN
       /\ superglobals_initialized' =
              [superglobals_initialized EXCEPT ![t] = c.initialized]
       /\ cached_superglobal_arrs' =
              [cached_superglobal_arrs EXCEPT ![t] = c.arrs]
    /\ last' = Ev(t, "sapi_request_shutdown", "done", "void",
                  [held |-> tokio_sapi_get_header_count(t),
                   code |-> tokio_sapi_get_response_code(t),
                   had_ctx |-> HasReq(t)])
    /\ UNCHANGED <<bridge_vars, php_vars, symbol_table, sapi_headers>>

(***************************************************************************)
(* Initial state: no thread has a context and nothing is running.          *)
(***************************************************************************)
Init ==
    /\ tls_ctx = [t \in Threads |-> <<>>]
    /\ tls_request_ctx = [t \in Threads |-> <<>>]
    /\ tls_request_id = [t \in Threads |-> 0]
    /\ stack = [t \in Threads |-> <<>>]
    /\ finish_invocations = [t \in Threads |-> 0]
    /\ allocated = [t \in Threads |-> 0]
    /\ php = [t \in Threads |->
                [ob |-> <<>>, flush_in_progress |-> 0, spin |-> FALSE,
                 finish_returned |-> FALSE, echoed |-> <<>>]]
    /\ memfd = <<>>
    /\ tls_heartbeat_ctx = [t \in Threads |-> NULL]
    /\ tls_heartbeat_max_secs = [t \in Threads |-> 0]
    /\ tls_heartbeat_callback = [t \in Threads |-> NULL]
    /\ superglobals_initialized = [t \in Threads |-> 0]
    /\ cached_superglobal_arrs =
           [t \in Threads |-> [i \in TrackVars |-> <<>>]]
    /\ symbol_table =
           [t \in Threads |-> [gen |-> 0, arrs |-> [i \in 0..6 |-> {}]]]
    /\ sapi_headers =
           [t \in Threads |-> [headers |-> 0, http_response_code |-> 200]]
    /\ last = Ev("A", "none", "done", "void", <<>>)


(***************************************************************************)
(* Inputs.                                                                 *)
(***************************************************************************)
\* Header names.
XA == <<"X", "-", "A">>
xa == <<"x", "-", "a">>
XAB == <<"X", "-", "A", "B">>
YB == <<"Y", "-", "B">>

\* Names tokio_bridge_add_header rejects, as <<name, name_len>>: NULL with a
\* length, and the empty string.
NoNames == { <<<<>>, 3>>, <<<< <<>> >>, 0>> }

\* Header blobs: name NUL value NUL ...
Blob1 == <<"X", "-", "A", NUL, "1", NUL>>

\* Calls of tokio_bridge_trigger_finish.
FinishCalls ==
    { FinishArgs(<<"o", "k">>, Blob1, 1, 200),
      FinishArgs(<<>>, <<>>, 0, 204),
      FinishArgs(<<"n", "o", "!">>, Blob1, 1, 500) }

\* Calls of tokio_bridge_mark_finished: <<offset, header_count, response_code>>.
MarkCalls == { <<0, 0, 200>>, <<5, 1, 404>>, <<7, 2, 200>> }

\* Finish callback registrations: <<ctx, callback>>.
FinishSlots ==
    { <<NULL, NULL>>, <<"p1", NULL>>, <<"p1", "on_finish">>,
      <<"p2", "on_finish">>, <<"p1", "on_finish2">> }

(***************************************************************************)
(* SpecFinish: one worker thread driving the context lifecycle and the     *)
(* finish-early protocol, the finish callback re-entering the bridge.      *)
(***************************************************************************)
NextFinish ==
    \E t \in {"A"} :
        \/ \E calloc_ok \in BOOLEAN : tokio_bridge_init_ctx(t, 1, 1, calloc_ok)
        \/ tokio_bridge_destroy_ctx(t)
        \/ \E s \in FinishSlots : tokio_bridge_set_finish_callback(t, s[1], s[2])
        \/ \E m \in MarkCalls : tokio_bridge_mark_finished(t, m[1], m[2], m[3])
        \/ \E a \in FinishCalls :
              /\ Len(stack[t]) < MaxDepth
              /\ tokio_bridge_trigger_finish(t, a)
        \/ /\ tokio_bridge_get_header_count(t) < 1
           /\ tokio_bridge_add_header(t, <<XA>>, Len(XA), <<"1">>, 0, TRUE, TRUE)
        \/ CallbackReturn(t)

SpecFinish == Init /\ [][NextFinish]_vars


(***************************************************************************)
(* Spec: one worker thread using the whole bridge API - lifecycle, finish, *)
(* headers, heartbeat and streaming - with callbacks that re-enter it.     *)
(***************************************************************************)
Next ==
    \E t \in {"A"} :
        \/ \E calloc_ok \in BOOLEAN : tokio_bridge_init_ctx(t, 1, 1, calloc_ok)
        \/ tokio_bridge_destroy_ctx(t)
        \/ \E s \in {<<NULL, NULL>>, <<"p1", "on_finish">>} :
              tokio_bridge_set_finish_callback(t, s[1], s[2])
        \/ tokio_bridge_mark_finished(t, 5, 1, 404)
        \/ /\ Len(stack[t]) < MaxNest
           /\ tokio_bridge_trigger_finish(t, FinishArgs(<<"o", "k">>, Blob1, 1, 200))
        \/ \E h \in {<<NULL, 0, NULL>>, <<"p2", 2, "on_heartbeat">>} :
              tokio_bridge_set_heartbeat(t, h[1], h[2], h[3])
        \/ \E secs \in {0, 1, 3} :
              /\ Len(stack[t]) < MaxNest
              /\ tokio_bridge_send_heartbeat(t, secs)
        \/ \E result \in {0, 1} : HeartbeatReturn(t, result)
        \/ \E replace \in {0, 1}, ok \in BOOLEAN :
              /\ tokio_bridge_add_header(t, <<XA>>, Len(XA), <<"1">>, replace, ok, ok)
              /\ tokio_bridge_get_header_count(t)' <= MaxHeld
        \/ tokio_bridge_clear_headers(t)
        \/ \E s \in {<<NULL, NULL>>, <<"p3", "on_chunk">>} :
              tokio_bridge_enable_streaming(t, s[1], s[2])
        \/ \E s \in {<<NULL, NULL>>, <<"p3", "on_chunk">>} :
              tokio_bridge_set_stream_callback(t, s[1], s[2])
        \/ tokio_bridge_try_enable_streaming(t)
        \/ \E d \in {<<>>, <<<<"d">>>>} :
              /\ Len(stack[t]) < MaxNest
              /\ tokio_bridge_send_chunk(t, d, IF d = <<>> THEN 0 ELSE Len(d[1]))
        \/ tokio_bridge_set_stream_offset(t, 1)
        \/ tokio_bridge_end_stream(t)
        \/ CallbackReturn(t)

Spec == Init /\ [][Next]_vars

(***************************************************************************)
(* SpecHdr: one worker thread using the header ledger with names that      *)
(* differ in case and in length, with and without replace, every malloc    *)
(* succeeding or failing.                                                  *)
(***************************************************************************)
NextHdr ==
    \E t \in {"A"} :
        \/ \E calloc_ok \in BOOLEAN : tokio_bridge_init_ctx(t, 1, 1, calloc_ok)
        \/ \E name \in {XA, xa, XAB}, value \in {<<"1">>, <<"2">>},
              replace \in {0, 1}, name_ok \in BOOLEAN, value_ok \in BOOLEAN :
              /\ tokio_bridge_add_header(t, <<name>>, Len(name), value,
                                         replace, name_ok, value_ok)
              /\ tokio_bridge_get_header_count(t)' <= MaxLedger
        \/ \E n \in NoNames, replace \in {0, 1} :
              tokio_bridge_add_header(t, n[1], n[2], <<"1">>, replace, TRUE, TRUE)
        \/ tokio_bridge_clear_headers(t)

SpecHdr == Init /\ [][NextHdr]_vars

(***************************************************************************)
(* SpecCap: one worker thread filling the bridge ledger to its capacity    *)
(* with one name, replacing the value of that name on the way and at       *)
(* capacity, and adding another name at capacity.                          *)
(***************************************************************************)
NextCap ==
    \E t \in {"A"} :
        \/ tokio_bridge_init_ctx(t, 1, 1, TRUE)
        \/ \E ok \in BOOLEAN :
              tokio_bridge_add_header(t, <<XA>>, Len(XA), <<"1">>, 0, ok, ok)
        \/ tokio_bridge_add_header(t, <<xa>>, Len(xa), <<"2">>, 1, TRUE, TRUE)
        \/ /\ tokio_bridge_get_header_count(t) = TOKIO_BRIDGE_MAX_HEADERS
           /\ tokio_bridge_add_header(t, <<YB>>, Len(YB), <<"1">>, 1, TRUE, TRUE)
        \/ \E n \in {<<<<>>, 0>>, <<<<XA>>, 0>>}, replace \in {0, 1} :
              tokio_bridge_add_header(t, n[1], n[2], <<"1">>, replace, TRUE, TRUE)
        \/ tokio_bridge_clear_headers(t)

SpecCap == Init /\ [][NextCap]_vars

(***************************************************************************)
(* SpecSapiCap: the same use of the header ledger of the PHP extension.    *)
(***************************************************************************)
NextSapiCap ==
    \E t \in {"A"} :
        \/ \E calloc_ok \in BOOLEAN : tokio_sapi_request_init(t, 1, calloc_ok)
        \/ \E ok \in BOOLEAN :
              tokio_sapi_add_header(t, XA, Len(XA), <<"1">>, 0, TRUE, ok, ok)
        \/ tokio_sapi_add_header(t, xa, Len(xa), <<"2">>, 1, TRUE, TRUE, TRUE)
        \/ /\ tokio_sapi_get_header_count(t) = TOKIO_MAX_HEADERS
           /\ tokio_sapi_add_header(t, YB, Len(YB), <<"1">>, 1, TRUE, TRUE, TRUE)

SpecSapiCap == Init /\ [][NextSapiCap]_vars

(***************************************************************************)
(* SpecHeartbeat: one worker thread whose script and dispatcher request    *)
(* deadline extensions, through tokio_bridge_send_heartbeat and through    *)
(* the PHP function, under several configurations, the heartbeat callback  *)
(* returning any result and itself requesting extensions.                  *)
(***************************************************************************)
\* Heartbeat configurations: <<ctx, max_secs, callback>>.
HeartbeatSlots ==
    { <<NULL, 0, NULL>>, <<"p2", 2, NULL>>, <<"p2", 2, "on_heartbeat">>,
      <<"p4", 1, "on_heartbeat2">> }

\* Results of the heartbeat callback (an int64_t).
HeartbeatResults == {0 - 1, 0, 1, 2}

NextHeartbeat ==
    \E t \in {"A"} :
        \/ tokio_bridge_init_ctx(t, 1, 1, TRUE)
        \/ tokio_bridge_destroy_ctx(t)
        \/ \E h \in HeartbeatSlots : tokio_bridge_set_heartbeat(t, h[1], h[2], h[3])
        \/ \E secs \in 0..3 :
              /\ Len(stack[t]) < MaxDepth
              /\ tokio_bridge_send_heartbeat(t, secs)
        \/ \E result \in HeartbeatResults : HeartbeatReturn(t, result)
        \/ \E time \in (0 - 1)..3 :
              /\ Len(stack[t]) < MaxDepth
              /\ tokio_request_heartbeat(t, time)
        \/ \E result \in HeartbeatResults : RequestHeartbeatReturn(t, result)

SpecHeartbeat == Init /\ [][NextHeartbeat]_vars

(***************************************************************************)
(* SpecStream: one worker thread streaming: the stream callback is armed   *)
(* or enabled, with and without a function, chunks are sent (also NULL and *)
(* empty ones, also from inside the stream callback), the offset is set to *)
(* any value, the stream is ended, and the request is finished on the way. *)
(***************************************************************************)
\* Stream callback registrations: <<ctx, callback>>.
StreamSlots == { <<NULL, NULL>>, <<"p3", "on_chunk">> }

\* Chunks handed to tokio_bridge_send_chunk: <<data, data_len>>.
Chunks ==
    { <<<<>>, 0>>, <<<<>>, 1>>, <<<< <<"d">> >>, 0>>, <<<< <<"d">> >>, 1>> }

NextStream ==
    \E t \in {"A"} :
        \/ tokio_bridge_init_ctx(t, 1, 1, TRUE)
        \/ \E s \in StreamSlots : tokio_bridge_enable_streaming(t, s[1], s[2])
        \/ \E s \in StreamSlots : tokio_bridge_set_stream_callback(t, s[1], s[2])
        \/ tokio_bridge_try_enable_streaming(t)
        \/ \E c \in Chunks :
              /\ Len(stack[t]) < MaxNest
              /\ tokio_bridge_send_chunk(t, c[1], c[2])
        \/ \E offset \in 0..MaxOffset : tokio_bridge_set_stream_offset(t, offset)
        \/ tokio_bridge_end_stream(t)
        \/ tokio_bridge_set_finish_callback(t, "p1", "on_finish")
        \/ tokio_bridge_mark_finished(t, 5, 1, 404)
        \/ /\ Len(stack[t]) < MaxNest
           /\ tokio_bridge_trigger_finish(t, FinishArgs(<<"o", "k">>, Blob1, 1, 201))
        \/ CallbackReturn(t)

SpecStream == Init /\ [][NextStream]_vars

(***************************************************************************)
(* SpecSlots: one worker thread configuring the three callback slots, each *)
(* with and without a function and with different ctx pointers, in any     *)
(* order and again, ending the stream, and running the three operations    *)
(* that call through a slot.                                               *)
(***************************************************************************)
\* Stream callback registrations with two ctx pointers: <<ctx, callback>>.
ChunkSlots ==
    { <<NULL, NULL>>, <<"p3", NULL>>, <<"p3", "on_chunk">>,
      <<"p5", "on_chunk">> }

NextSlots ==
    \E t \in {"A"} :
        \/ /\ stack[t] = <<>>
           /\ tokio_bridge_init_ctx(t, 1, 1, TRUE)
        \/ \E s \in FinishSlots : tokio_bridge_set_finish_callback(t, s[1], s[2])
        \/ \E h \in HeartbeatSlots : tokio_bridge_set_heartbeat(t, h[1], h[2], h[3])
        \/ \E s \in ChunkSlots : tokio_bridge_enable_streaming(t, s[1], s[2])
        \/ \E s \in ChunkSlots : tokio_bridge_set_stream_callback(t, s[1], s[2])
        \/ tokio_bridge_try_enable_streaming(t)
        \/ tokio_bridge_end_stream(t)
        \/ /\ Len(stack[t]) < MaxNest
           /\ tokio_bridge_trigger_finish(t, FinishArgs(<<"o", "k">>, Blob1, 1, 200))
        \/ /\ Len(stack[t]) < MaxNest
           /\ tokio_bridge_send_heartbeat(t, 1)
        \/ /\ Len(stack[t]) < MaxNest
           /\ tokio_bridge_send_chunk(t, << <<"d">> >>, 1)
        \/ CallbackReturn(t)
        \/ HeartbeatReturn(t, 1)

SpecSlots == Init /\ [][NextSlots]_vars

(***************************************************************************)
(* SpecBlob: one worker thread filling the bridge ledger with headers of   *)
(* two names and values of length 0, 1 and 2, replacing values (also with  *)
(* the value allocation failing), clearing the ledger, and serializing it  *)
(* at any point.                                                           *)
(***************************************************************************)
\* Header values: the empty string, one byte, two bytes.
BlobValues == { <<>>, <<"1">>, <<"2", "3">> }

NextBlob ==
    \E t \in {"A"} :
        \/ tokio_bridge_init_ctx(t, 1, 1, TRUE)
        \/ \E name \in {XA, YB}, value \in BlobValues,
              replace \in {0, 1}, value_ok \in BOOLEAN :
              /\ tokio_bridge_add_header(t, <<name>>, Len(name), value,
                                         replace, TRUE, value_ok)
              /\ tokio_bridge_get_header_count(t)' <= MaxLedger
        \/ tokio_bridge_clear_headers(t)
        \/ \E malloc_ok \in BOOLEAN : SerializeHeaders(t, malloc_ok)

SpecBlob == Init /\ [][NextBlob]_vars

(***************************************************************************)
(* SpecFlush: one request of one worker thread.  The dispatcher creates    *)
(* the context and enables or ends streaming; the script writes output,    *)
(* opens and closes output buffers, calls tokio_finish_request (with and   *)
(* without a stream finish callback registered), flush() and               *)
(* tokio_stream_flush(), in any order.  The script runs only while no      *)
(* callback is running, and not after tokio_stream_flush stopped           *)
(* returning.                                                              *)
(***************************************************************************)
\* The script or the dispatcher can act: no callback is running and
\* tokio_stream_flush is not looping.
Idle(t) == stack[t] = <<>> /\ ~php[t].spin

NextFlush ==
    \E t \in {"A"} :
        \/ /\ Idle(t) /\ ~HasCtx(t)
           /\ tokio_bridge_init_ctx(t, 1, 1, TRUE)
        \/ \E s \in StreamSlots :
              /\ Idle(t)
              /\ tokio_bridge_enable_streaming(t, s[1], s[2])
        \/ /\ Idle(t)
           /\ tokio_bridge_end_stream(t)
        \/ /\ Idle(t)
           /\ Len(php[t].echoed) < MaxOutput
           /\ php_echo(t)
        \/ /\ Idle(t)
           /\ Len(php[t].ob) < MaxLevel
           /\ php_ob_start(t)
        \/ /\ Idle(t)
           /\ Len(php[t].ob) > 0
           /\ php_ob_end_flush(t)
        \/ \E callback \in {NULL, "on_stream_finish"} :
              /\ Idle(t)
              /\ tokio_finish_request(t, callback)
        \/ FinishRequestReturn(t)
        \/ \E malloc_ok \in BOOLEAN :
              /\ Idle(t)
              /\ tokio_sapi_flush(t, malloc_ok)
        \/ \E malloc_ok \in BOOLEAN :
              /\ Idle(t)
              /\ tokio_stream_flush(t, malloc_ok)
        \/ FlushReturn(t)

SpecFlush == Init /\ [][NextFlush]_vars

(***************************************************************************)
(* SpecReenter: one request of one worker thread with implicit flush on.   *)
(* tokio_sapi_flush is taken in two steps, entry and body, and is entered  *)
(* at any point where no stream callback runs: by the script, and by the   *)
(* engine from inside the buffer loop of a tokio_sapi_flush in progress or *)
(* of a tokio_stream_flush that does not leave its loop.  The script       *)
(* writes output, opens output buffers and calls tokio_stream_flush()      *)
(* while no flush is in progress; the dispatcher enables streaming, with   *)
(* and without a callback.                                                 *)
(***************************************************************************)
\* The script or the dispatcher can act: no callback and no flush handler
\* is running and tokio_stream_flush is not looping.
Script(t) == Idle(t) /\ php[t].flush_in_progress = 0

NextReenter ==
    \E t \in {"A"} :
        \/ /\ Script(t) /\ ~HasCtx(t)
           /\ tokio_bridge_init_ctx(t, 1, 1, TRUE)
        \/ \E s \in StreamSlots :
              /\ Script(t)
              /\ tokio_bridge_enable_streaming(t, s[1], s[2])
        \/ /\ Script(t)
           /\ Len(php[t].echoed) < MaxOutput
           /\ php_echo(t)
        \/ /\ Script(t)
           /\ Len(php[t].ob) < MaxLevel
           /\ php_ob_start(t)
        \/ /\ stack[t] = <<>>
           /\ tokio_sapi_flush_enter(t)
        \/ \E malloc_ok \in BOOLEAN :
              /\ stack[t] = <<>>
              /\ tokio_sapi_flush_body(t, malloc_ok)
        \/ \E malloc_ok \in BOOLEAN :
              /\ Script(t)
              /\ tokio_stream_flush(t, malloc_ok)
        \/ FlushReturn(t)

SpecReenter == Init /\ [][NextReenter]_vars

(***************************************************************************)
(* SpecBatch: the dispatcher clears the superglobals and hands one packed  *)
(* buffer to a batch function: every concatenation of at most MaxRecords   *)
(* pieces (records and headers that end the parsing), every buffer_len up  *)
(* to the bytes that exist, every count up to one more than the pieces.    *)
(***************************************************************************)
\* [v:u32] little-endian.
U32Bytes(v) ==
    <<v % 256, (v \div 256) % 256, (v \div 65536) % 256,
      (v \div 16777216) % 256>>

\* [key_len:u32][key\0][val_len:u32][val]
Rec(key, val) ==
    U32Bytes(Len(key) + 1) \o key \o <<0>> \o U32Bytes(Len(val)) \o val

\* k=v, the empty key with the empty value, a key_len of 0 and a key_len
\* of 65536.
Pieces ==
    {Rec(<<107>>, <<118>>), Rec(<<>>, <<>>), U32Bytes(0), U32Bytes(65536)}

RECURSIVE BuffersOf(_)
BuffersOf(n) ==
    IF n = 0 THEN {<<>>}
    ELSE LET shorter == BuffersOf(n - 1) IN
         shorter \cup {b \o p : b \in shorter, p \in Pieces}

Buffers == BuffersOf(MaxRecords)

BatchOps == {api[1] : api \in BatchApis}

NextBatch ==
    \E t \in {"A"} :
        \/ \E api \in BatchApis, buffer \in Buffers, count \in 0..(MaxRecords + 1) :
              \E buffer_len \in 0..Len(buffer) :
                 /\ last.op \notin BatchOps
                 /\ api[2] \in {TRACK_VARS_SERVER, TRACK_VARS_GET}
                 /\ tokio_sapi_set_vars_batch(t, api, buffer, buffer_len,
                                              count, FALSE)
        \/ tokio_sapi_clear_superglobals(t)

SpecBatch == Init /\ [][NextBatch]_vars

(***************************************************************************)
(* SpecRequest: one worker thread serving requests through the PHP         *)
(* extension: request init and shutdown, headers and POST data of the      *)
(* request context, the heartbeat statics and the superglobal cache.       *)
(***************************************************************************)
NextRequest ==
    \E t \in {"A"} :
        \/ \E id \in {7, 8}, calloc_ok \in BOOLEAN :
              tokio_sapi_request_init(t, id, calloc_ok)
        \/ /\ tokio_sapi_add_header(t, XA, Len(XA), <<"1">>, 0, TRUE, TRUE, TRUE)
           /\ tokio_sapi_get_header_count(t)' <= MaxHeld
        \/ \E malloc_ok \in BOOLEAN :
              tokio_sapi_set_post_data(t, <<<<"d">>>>, 1, TRUE, malloc_ok)
        \/ \E h \in {<<NULL, 0, NULL>>, <<"p2", 2, "on_heartbeat">>} :
              tokio_sapi_set_heartbeat_ctx(t, h[1], h[2], h[3])
        \/ \E calloc_ok \in BOOLEAN : tokio_sapi_set_response_code(t, 404, calloc_ok)
        \/ tokio_sapi_request_shutdown(t)
        \/ tokio_sapi_init_superglobals(t)

SpecRequest == Init /\ [][NextRequest]_vars

(***************************************************************************)
(* SpecCache: one worker thread whose dispatcher fills the superglobals    *)
(* request after request, with the batch functions or with                 *)
(* tokio_sapi_set_all_superglobals, while the engine replaces its symbol   *)
(* table between requests and the script sends headers.                    *)
(***************************************************************************)
KV == Rec(<<107>>, <<118>>)

AllBuffers ==
    {<<[buf |-> KV, len |-> Len(KV), count |-> 1],
       [buf |-> KV, len |-> Len(KV), count |-> 1],
       [buf |-> <<>>, len |-> 0, count |-> 0],
       [buf |-> <<>>, len |-> 0, count |-> 0]>>}

NextCache ==
    \E t \in {"A"} :
        \/ tokio_sapi_request_shutdown(t)
        \/ tokio_sapi_clear_superglobals(t)
        \/ tokio_sapi_init_superglobals(t)
        \/ \E api \in BatchApis, reused \in BOOLEAN :
              /\ api[2] \in {TRACK_VARS_SERVER, TRACK_VARS_GET}
              /\ tokio_sapi_set_vars_batch(t, api, KV, Len(KV), 1, reused)
        \/ \E b \in AllBuffers : tokio_sapi_set_all_superglobals(t, b)
        \/ php_request_shutdown(t)
        \/ php_header(t, 404)

SpecCache == Init /\ [][NextCache]_vars


(***************************************************************************)
(* SpecLife: one worker thread serving requests 1 and 2 one after the      *)
(* other: the context is created (calloc succeeding or failing), dirtied   *)
(* in every group of fields, destroyed or re-created, also from inside the *)
(* finish callback.                                                        *)
(***************************************************************************)
NextLife ==
    \E t \in {"A"} :
        \/ \E id \in {<<1, 1>>, <<2, 3>>}, calloc_ok \in BOOLEAN :
              tokio_bridge_init_ctx(t, id[1], id[2], calloc_ok)
        \/ tokio_bridge_destroy_ctx(t)
        \/ tokio_bridge_set_finish_callback(t, "p1", "on_finish")
        \/ tokio_bridge_mark_finished(t, 5, 1, 404)
        \/ /\ Len(stack[t]) < MaxNest
           /\ tokio_bridge_trigger_finish(t, FinishArgs(<<"o", "k">>, Blob1, 1, 201))
        \/ CallbackReturn(t)
        \/ /\ tokio_bridge_add_header(t, <<XA>>, Len(XA), <<"1">>, 0, TRUE, TRUE)
           /\ tokio_bridge_get_header_count(t)' <= MaxHeld
        \/ tokio_bridge_set_heartbeat(t, "p2", 2, "on_heartbeat")
        \/ tokio_bridge_enable_streaming(t, "p3", "on_chunk")
        \/ tokio_bridge_set_stream_offset(t, 1)

SpecLife == Init /\ [][NextLife]_vars

(***************************************************************************)
(* SpecThreads: two worker threads, each serving its own requests on its   *)
(* own context, their bridge operations and finish callbacks interleaved   *)
(* in any order.  The dispatcher creates and destroys a thread's context   *)
(* between script executions, not from inside a callback.                  *)
(***************************************************************************)
WorkerId(t) == IF t = "A" THEN 1 ELSE 2

NextThreads ==
    \E t \in Threads :
        \/ /\ stack[t] = <<>>
           /\ tokio_bridge_init_ctx(t, WorkerId(t), WorkerId(t), TRUE)
        \/ /\ stack[t] = <<>>
           /\ tokio_bridge_destroy_ctx(t)
        \/ tokio_bridge_set_finish_callback(t, "p1", "on_finish")
        \/ tokio_bridge_trigger_finish(t, FinishArgs(<<"o", "k">>, Blob1, 1, 201))
        \/ CallbackReturn(t)
        \/ tokio_bridge_add_header(t, <<XA>>, Len(XA), <<"1">>, 1, TRUE, TRUE)
        \/ tokio_bridge_set_heartbeat(t, "p2", 2, "on_heartbeat")
        \/ tokio_bridge_enable_streaming(t, "p3", "on_chunk")

SpecThreads == Init /\ [][NextThreads]_vars

(***************************************************************************)
(* Vocabulary of the properties.                                           *)
(***************************************************************************)
\* The finish snapshot of a live context.
Snapshot(t) ==
    <<Ctx(t).output_offset, Ctx(t).finished_header_count, Ctx(t).response_code>>

\* This step is thread t entering operation op (not its return from a callback).
Calls(t, op) == last'.t = t /\ last'.op = op /\ last'.kind # "return"

\* This step is thread t creating or destroying its context.
Lifecycle(t) == last'.t = t /\ last'.op \in {"init_ctx", "destroy_ctx"}

\* The trigger_finish calls of thread t whose callback is running on the
\* context they were made on.
RunningFinish(t) ==
    {i \in DOMAIN stack[t] :
        stack[t][i].op = "trigger_finish" /\ ~stack[t][i].stale}

(***************************************************************************)
(* C1.  Of all tokio_bridge_trigger_finish / tokio_bridge_mark_finished    *)
(* calls on one context only the first changes the snapshot                *)
(* (output_offset, finished_header_count, response_code): it records its   *)
(* own arguments; every later call leaves the three unchanged, a later     *)
(* trigger_finish returns 0, and the finish callback is invoked at most    *)
(* once between two tokio_bridge_init_ctx.                                 *)
(***************************************************************************)
C1_FinishOnlyOnce ==
    [][\A t \in Threads :
        /\ finish_invocations'[t] <= 1
        /\ (HasCtx(t) /\ Ctx(t).is_finished = 0 /\ Calls(t, "mark_finished"))
            => /\ tls_ctx'[t] # <<>>
               /\ Snapshot(t)' = <<last'.arg.offset, last'.arg.header_count,
                                   last'.arg.response_code>>
        /\ (HasCtx(t) /\ Ctx(t).is_finished = 0 /\ Calls(t, "trigger_finish"))
            => /\ tls_ctx'[t] # <<>>
               /\ Snapshot(t)' = <<last'.arg.body_len, last'.arg.header_count,
                                   last'.arg.status_code>>
        /\ (HasCtx(t) /\ Ctx(t).is_finished # 0
                /\ (Calls(t, "mark_finished") \/ Calls(t, "trigger_finish")))
            => /\ tls_ctx'[t] # <<>>
               /\ Snapshot(t)' = Snapshot(t)
               /\ finish_invocations'[t] = finish_invocations[t]
               /\ stack'[t] = stack[t]
               /\ last'.op = "trigger_finish"
                    => last'.kind = "done" /\ last'.ret = 0
      ]_vars

\* A trigger_finish has returned 0 on a context whose callback was invoked
\* once before.
C1_Witness ==
    /\ HasCtx("A")
    /\ Ctx("A").is_finished = 1
    /\ finish_invocations["A"] = 1
    /\ stack["A"] = <<>>
    /\ last.op = "trigger_finish" /\ last.kind = "done" /\ last.ret = 0

(***************************************************************************)
(* C2.  tokio_bridge_trigger_finish on an active context with no finish    *)
(* callback registered returns 0 and leaves the context as it was.         *)
(***************************************************************************)
C2_NoCallbackNoEffect ==
    [][\A t \in Threads :
        (/\ HasCtx(t)
         /\ Ctx(t).is_finished = 0
         /\ Ctx(t).finish_callback = NULL
         /\ Calls(t, "trigger_finish"))
            => /\ last'.kind = "done" /\ last'.ret = 0
               /\ tls_ctx'[t] = tls_ctx[t]
      ]_vars

(***************************************************************************)
(* C3.  Once tokio_bridge_is_finished() returns 1 it returns 1 after every *)
(* bridge operation (headers, streaming, heartbeat, callback registration, *)
(* further finish calls, callback returns) other than                      *)
(* tokio_bridge_init_ctx and tokio_bridge_destroy_ctx.                     *)
(***************************************************************************)
C3_FinishedIsMonotonic ==
    [][\A t \in Threads :
        (tokio_bridge_is_finished(t) = 1 /\ ~Lifecycle(t))
            => tokio_bridge_is_finished(t)' = 1
      ]_vars

\* A finished context has gone through tokio_bridge_end_stream while its
\* finish callback was still running.
C3_Witness ==
    /\ tokio_bridge_is_finished("A") = 1
    /\ RunningFinish("A") # {}
    /\ last.op = "end_stream"

(***************************************************************************)
(* C4.  While the finish callback of a tokio_bridge_trigger_finish call    *)
(* runs (and has not itself destroyed or re-created the context), the      *)
(* context is finished and the snapshot getters return body_len,           *)
(* header_count and status_code of that call; a trigger_finish or          *)
(* mark_finished issued from inside the callback changes nothing, invokes  *)
(* no callback, and trigger_finish returns 0.                              *)
(***************************************************************************)
FinishedWhileCallbackRuns(t) ==
    \A i \in RunningFinish(t) :
        /\ tokio_bridge_is_finished(t) = 1
        /\ tokio_bridge_get_finished_offset(t) = stack[t][i].arg.body_len
        /\ tokio_bridge_get_finished_header_count(t) = stack[t][i].arg.header_count
        /\ tokio_bridge_get_finished_response_code(t) = stack[t][i].arg.status_code

C4_FinishedBeforeCallback ==
    [][\A t \in Threads :
        /\ FinishedWhileCallbackRuns(t)'
        /\ (RunningFinish(t) # {}
                /\ (Calls(t, "mark_finished") \/ Calls(t, "trigger_finish")))
            => /\ tls_ctx'[t] = tls_ctx[t]
               /\ stack'[t] = stack[t]
               /\ finish_invocations'[t] = finish_invocations[t]
               /\ last'.op = "trigger_finish"
                    => last'.kind = "done" /\ last'.ret = 0
      ]_vars

\* A trigger_finish issued inside the running finish callback has returned 0.
C4_Witness ==
    /\ RunningFinish("A") # {}
    /\ finish_invocations["A"] = 1
    /\ last.op = "trigger_finish" /\ last.kind = "done" /\ last.ret = 0

(***************************************************************************)
(* C5.  A tokio_bridge_trigger_finish call on an active context with a     *)
(* registered callback invokes that callback exactly once, before it       *)
(* returns, with the registered ctx and exactly the body, header blob,     *)
(* lengths, header count and status of the call, and then returns 1.       *)
(***************************************************************************)
C5_CallbackGetsTheCall ==
    [][\A t \in Threads :
        /\ (/\ HasCtx(t)
            /\ Ctx(t).is_finished = 0
            /\ Ctx(t).finish_callback # NULL
            /\ Calls(t, "trigger_finish"))
            => /\ last'.kind = "call"
               /\ finish_invocations'[t] = finish_invocations[t] + 1
               /\ Len(stack'[t]) = Len(stack[t]) + 1
               /\ LET a == stack'[t][Len(stack'[t])].arg IN
                  last'.arg = [ callback     |-> Ctx(t).finish_callback,
                                ctx          |-> Ctx(t).finish_ctx,
                                body         |-> a.body,
                                body_len     |-> a.body_len,
                                headers      |-> a.headers,
                                headers_len  |-> a.headers_len,
                                header_count |-> a.header_count,
                                status_code  |-> a.status_code ]
        /\ (last'.t = t /\ last'.op = "trigger_finish" /\ last'.kind = "return")
            => /\ last'.ret = 1
               /\ finish_invocations'[t] = finish_invocations[t]
      ]_vars

\* init(1,1), one header added, trigger_finish("ok", blob, 1, 200): the
\* callback is running with body "ok", one header and status 200.
C5_Witness ==
    /\ HasCtx("A")
    /\ tokio_bridge_get_header_count("A") = 1
    /\ finish_invocations["A"] = 1
    /\ last.op = "trigger_finish" /\ last.kind = "call"
    /\ last.arg.callback = "on_finish" /\ last.arg.ctx = "p2"
    /\ last.arg.body = <<"o", "k">> /\ last.arg.body_len = 2
    /\ last.arg.headers = Blob1 /\ last.arg.header_count = 1
    /\ last.arg.status_code = 200

(***************************************************************************)
(* C6.  tokio_bridge_mark_finished records its snapshot and sets the       *)
(* finished flag without invoking the finish callback, also when one is    *)
(* registered; a context finished without a callback invocation gets none  *)
(* from any later call.                                                    *)
(***************************************************************************)
C6_MarkInvokesNothing ==
    [][\A t \in Threads :
        /\ Calls(t, "mark_finished")
            => /\ last'.kind = "done"
               /\ stack'[t] = stack[t]
               /\ finish_invocations'[t] = finish_invocations[t]
               /\ HasCtx(t) => /\ tls_ctx'[t] # <<>>
                               /\ tokio_bridge_is_finished(t)' = 1
        /\ (HasCtx(t) /\ Ctx(t).is_finished = 0 /\ Calls(t, "mark_finished"))
            => Snapshot(t)' = <<last'.arg.offset, last'.arg.header_count,
                                last'.arg.response_code>>
        /\ (HasCtx(t) /\ Ctx(t).is_finished # 0
                /\ finish_invocations[t] = 0 /\ ~Lifecycle(t))
            => finish_invocations'[t] = 0
      ]_vars

\* mark_finished(5, 1, 404) came first on a context with a registered
\* callback; a later trigger_finish returned 0 and the callback never ran.
C6_Witness ==
    /\ HasCtx("A")
    /\ Ctx("A").finish_callback # NULL
    /\ Snapshot("A") = <<5, 1, 404>>
    /\ finish_invocations["A"] = 0
    /\ last.op = "trigger_finish" /\ last.kind = "done" /\ last.ret = 0


(***************************************************************************)
(* Vocabulary of the header properties.                                    *)
(***************************************************************************)
\* Two names are equal ignoring case: same length, same letters.
SameName(a, b) ==
    /\ Len(a) = Len(b)
    /\ \A k \in 1..Len(a) : ToLower(a[k]) = ToLower(b[k])

\* The positions of the ledger hs holding a name equal to name ignoring case.
Holding(hs, name) == {i \in 1..Len(hs) : SameName(hs[i].name[1], name)}

\* The first of a non-empty set of positions.
First(S) == CHOOSE i \in S : \A j \in S : i <= j

\* The indices tokio_bridge_get_header is read at around a step of thread t:
\* every index valid before or after the step, one below and one above.
Indices(t) == (0 - 1)..(tokio_bridge_get_header_count(t) + 2)

\* This step is a tokio_bridge_add_header call of thread t on a live context
\* with a non-NULL, non-empty name.
AddsHeader(t) ==
    /\ HasCtx(t)
    /\ Calls(t, "add_header")
    /\ last'.arg.name # <<>>
    /\ last'.arg.name_len > 0

\* The call takes the replace path: replace is set and the name is held.
ReplacePath(t) ==
    /\ last'.arg.replace # 0
    /\ Holding(Ctx(t).headers, last'.arg.name[1]) # {}

(***************************************************************************)
(* C7.  tokio_bridge_add_header, the allocations of the call succeeding    *)
(* (their failure is C10): with replace set and an entry whose name is     *)
(* equal ignoring case, the first such entry has its value overwritten,    *)
(* its stored name and its position and every other entry stay, the count  *)
(* stays and 1 is returned; with replace clear a held name is appended as  *)
(* a further entry; with replace set and no such entry the call appends.   *)
(***************************************************************************)
C7_ReplaceOrAppend ==
    [][\A t \in Threads :
        AddsHeader(t) =>
            LET hs == Ctx(t).headers
                a  == last'.arg
                entry == [name |-> a.name, value |-> <<a.value>>]
            IN
            /\ (ReplacePath(t) /\ a.malloc_value_ok)
                => LET i == First(Holding(hs, a.name[1])) IN
                   /\ last'.ret = 1
                   /\ tls_ctx'[t] # <<>>
                   /\ Ctx(t)'.headers =
                        [hs EXCEPT ![i] = [name |-> hs[i].name,
                                           value |-> <<a.value>>]]
                   /\ tls_ctx'[t][1] = [Ctx(t) EXCEPT !.headers = Ctx(t)'.headers]
            /\ (~ReplacePath(t) /\ a.malloc_name_ok /\ a.malloc_value_ok
                    /\ Len(hs) < TOKIO_BRIDGE_MAX_HEADERS)
                => /\ last'.ret = 1
                   /\ tls_ctx'[t] # <<>>
                   /\ Ctx(t)'.headers = Append(hs, entry)
      ]_vars

\* add("X-A", "1") then add("x-a", "2", replace): exactly one entry
\* ("X-A", "2").
C7_Witness ==
    /\ HasCtx("A")
    /\ Ctx("A").headers = <<[name |-> <<XA>>, value |-> <<<<"2">>>>]>>
    /\ last.op = "add_header" /\ last.ret = 1
    /\ last.arg.name = <<xa>> /\ last.arg.replace = 1

(***************************************************************************)
(* C8.  0 <= header_count <= TOKIO_BRIDGE_MAX_HEADERS in every state; an   *)
(* append below capacity (its allocations succeeding) returns 1 and adds   *)
(* one entry; an append at capacity returns 0 and leaves the count and     *)
(* every entry as they were.                                               *)
(***************************************************************************)
C8_CapacityBound ==
    [][\A t \in Threads :
        /\ tokio_bridge_get_header_count(t)' >= 0
        /\ tokio_bridge_get_header_count(t)' <= TOKIO_BRIDGE_MAX_HEADERS
        /\ (AddsHeader(t) /\ ~ReplacePath(t))
            => /\ (/\ header_count(Ctx(t)) < TOKIO_BRIDGE_MAX_HEADERS
                   /\ last'.arg.malloc_name_ok /\ last'.arg.malloc_value_ok)
                    => /\ last'.ret = 1
                       /\ tokio_bridge_get_header_count(t)'
                            = header_count(Ctx(t)) + 1
               /\ header_count(Ctx(t)) = TOKIO_BRIDGE_MAX_HEADERS
                    => /\ last'.ret = 0
                       /\ tls_ctx'[t] = tls_ctx[t]
      ]_vars

\* The ledger is full and an append has just been refused.
C8_Witness ==
    /\ tokio_bridge_get_header_count("A") = TOKIO_BRIDGE_MAX_HEADERS
    /\ last.op = "add_header" /\ last.ret = 0
    /\ last.arg.name = <<YB>> /\ last.arg.name_len = Len(YB)
    /\ last.arg.malloc_name_ok /\ last.arg.malloc_value_ok

\* The bridge half of C9: at capacity a replace of a held name overwrites
\* the value and leaves the count at the maximum.
BridgeReplaceAtCapacity ==
    [][\A t \in Threads :
        (/\ AddsHeader(t)
         /\ ReplacePath(t)
         /\ last'.arg.malloc_value_ok
         /\ header_count(Ctx(t)) = TOKIO_BRIDGE_MAX_HEADERS)
            => /\ tls_ctx'[t] # <<>>
               /\ header_count(Ctx(t)') = TOKIO_BRIDGE_MAX_HEADERS
               /\ Ctx(t)'.headers[First(Holding(Ctx(t).headers,
                                                last'.arg.name[1]))].value
                    = <<last'.arg.value>>
      ]_vars

(***************************************************************************)
(* C9.  In both ledgers (tokio_bridge_add_header, tokio_sapi_add_header),  *)
(* when the count is at the maximum and an entry holds the name ignoring   *)
(* case, an add with replace set overwrites that entry's value and leaves  *)
(* the count at the maximum.                                               *)
(***************************************************************************)
C9_ReplaceAtCapacity ==
    [][\A t \in Threads :
        /\ (/\ AddsHeader(t)
            /\ ReplacePath(t)
            /\ last'.arg.malloc_value_ok
            /\ header_count(Ctx(t)) = TOKIO_BRIDGE_MAX_HEADERS)
            => /\ tls_ctx'[t] # <<>>
               /\ header_count(Ctx(t)') = TOKIO_BRIDGE_MAX_HEADERS
               /\ Ctx(t)'.headers[First(Holding(Ctx(t).headers,
                                                last'.arg.name[1]))].value
                    = <<last'.arg.value>>
        /\ (/\ HasReq(t)
            /\ Calls(t, "sapi_add_header")
            /\ last'.arg.replace # 0
            /\ last'.arg.malloc_value_ok
            /\ Holding(Req(t).headers, last'.arg.name) # {}
            /\ Len(Req(t).headers) = TOKIO_MAX_HEADERS)
            => /\ tokio_sapi_get_header_count(t)' = TOKIO_MAX_HEADERS
               /\ Req(t)'.headers[First(Holding(Req(t).headers,
                                                last'.arg.name))].value
                    = <<last'.arg.value>>
      ]_vars

(***************************************************************************)
(* C10.  When an allocation made by tokio_bridge_add_header fails (the     *)
(* value on the replace path, the name or the value on the append path)    *)
(* the call returns 0 and the ledger is as it was before the call.         *)
(***************************************************************************)
C10_AllocFailureNoEffect ==
    [][\A t \in Threads :
        (/\ AddsHeader(t)
         /\ \/ ReplacePath(t) /\ ~last'.arg.malloc_value_ok
            \/ /\ ~ReplacePath(t)
               /\ header_count(Ctx(t)) < TOKIO_BRIDGE_MAX_HEADERS
               /\ ~(last'.arg.malloc_name_ok /\ last'.arg.malloc_value_ok))
            => /\ last'.ret = 0
               /\ tls_ctx'[t] = tls_ctx[t]
      ]_vars

(***************************************************************************)
(* C11.  tokio_bridge_add_header called with a NULL name or with           *)
(* name_len = 0 returns 0 and changes nothing - not the ledger, not any    *)
(* other field of the context, not the slot - whether replace is set or    *)
(* not and whatever the number of entries held, the maximum included.      *)
(***************************************************************************)
C11_EmptyNameRejected ==
    [][\A t \in Threads :
        (/\ Calls(t, "add_header")
         /\ (last'.arg.name = <<>> \/ last'.arg.name_len = 0))
            => /\ last'.kind = "done"
               /\ last'.ret = 0
               /\ tls_ctx' = tls_ctx
               /\ stack' = stack
               /\ allocated' = allocated
      ]_vars

\* A non-NULL name passed with length 0 and replace set has been refused on
\* a full ledger that holds that name.
C11_Witness ==
    /\ tokio_bridge_get_header_count("A") = TOKIO_BRIDGE_MAX_HEADERS
    /\ last.op = "add_header" /\ last.ret = 0
    /\ last.arg.name = <<XA>> /\ last.arg.name_len = 0
    /\ last.arg.replace = 1

(***************************************************************************)
(* C12.  tokio_bridge_get_header(i) returns 1 exactly for                  *)
(* 0 <= i < header_count and 0 for every other index, writing nothing to   *)
(* its outputs then; the entries are read in insertion order: an append    *)
(* is read back at index header_count - 1 and leaves what every lower      *)
(* index reads, a replace leaves the name read at every index.             *)
(* tokio_bridge_clear_headers leaves no entry and a count of 0, the other  *)
(* fields of the context as they were, and the ledger takes entries again. *)
(***************************************************************************)
C12_HeaderAccessors ==
    [][\A t \in Threads :
        LET before == tokio_bridge_get_header_count(t)
            after  == tokio_bridge_get_header_count(t)'
        IN
        /\ \A i \in Indices(t) :
              /\ tokio_bridge_get_header(t, i)'.ret = 1
                    <=> (tls_ctx'[t] # <<>> /\ 0 <= i /\ i < after)
              /\ tokio_bridge_get_header(t, i)'.ret = 0
                    => /\ tokio_bridge_get_header(t, i)'.name = "unset"
                       /\ tokio_bridge_get_header(t, i)'.value = "unset"
        /\ (AddsHeader(t) /\ last'.ret = 1 /\ after = before + 1)
            => \A i \in Indices(t) :
                  /\ i = after - 1
                        => tokio_bridge_get_header(t, i)' =
                             [ret   |-> 1,
                              name  |-> <<SubSeq(last'.arg.name[1], 1,
                                                 last'.arg.name_len)>>,
                              value |-> <<last'.arg.value>>]
                  /\ (0 <= i /\ i < before)
                        => tokio_bridge_get_header(t, i)'
                             = tokio_bridge_get_header(t, i)
        /\ (AddsHeader(t) /\ after = before)
            => \A i \in Indices(t) :
                  (0 <= i /\ i < before)
                    => tokio_bridge_get_header(t, i)'.name
                         = tokio_bridge_get_header(t, i).name
        /\ (HasCtx(t) /\ Calls(t, "clear_headers"))
            => /\ after = 0
               /\ tokio_bridge_get_header(t, 0)'.ret = 0
               /\ tls_ctx'[t] = <<[Ctx(t) EXCEPT !.headers = <<>>]>>
               /\ after < TOKIO_BRIDGE_MAX_HEADERS
      ]_vars

\* "X-A: 1" then "X-AB: 2" were added: index 0 reads the first, index 1 the
\* second, index 2 nothing.
C12_Witness ==
    /\ tokio_bridge_get_header_count("A") = 2
    /\ tokio_bridge_get_header("A", 0) =
            [ret |-> 1, name |-> <<XA>>, value |-> <<<<"1">>>>]
    /\ tokio_bridge_get_header("A", 1) =
            [ret |-> 1, name |-> <<XAB>>, value |-> <<<<"2">>>>]
    /\ tokio_bridge_get_header("A", 2).ret = 0
    /\ last.op = "add_header" /\ last.ret = 1

\* A full ledger has been cleared.
ClearedAtCapacity ==
    /\ last.op = "clear_headers"
    /\ last.arg.freed = TOKIO_BRIDGE_MAX_HEADERS
    /\ tokio_bridge_get_header_count("A") = 0

(***************************************************************************)
(* C13.  After a tokio_bridge_init_ctx whose allocation succeeds, whatever *)
(* the thread's previous context held (headers, finish snapshot, stream    *)
(* and heartbeat state, another request id), every accessor reads the      *)
(* fresh values: not finished, finished offset 0, finished header count 0, *)
(* response code 200, no header, not streaming, stream offset 0, heartbeat *)
(* maximum 0, and the ids are those of the call.                           *)
(***************************************************************************)
C13_InitLeaksNothing ==
    [][\A t \in Threads :
        (Calls(t, "init_ctx") /\ last'.arg.calloc_ok)
            => /\ tokio_bridge_get_ctx(t)' # <<>>
               /\ Ctx(t)'.request_id = last'.arg.request_id
               /\ Ctx(t)'.worker_id = last'.arg.worker_id
               /\ tokio_bridge_is_finished(t)' = 0
               /\ tokio_bridge_get_finished_offset(t)' = 0
               /\ tokio_bridge_get_finished_header_count(t)' = 0
               /\ tokio_bridge_get_finished_response_code(t)' = 200
               /\ tokio_bridge_get_header_count(t)' = 0
               /\ tokio_bridge_get_header(t, 0)'.ret = 0
               /\ tokio_bridge_is_streaming(t)' = 0
               /\ tokio_bridge_get_stream_offset(t)' = 0
               /\ tokio_bridge_get_heartbeat_max(t)' = 0
      ]_vars

\* The finish callback of a context (finished, then) has called
\* tokio_bridge_init_ctx(2, 3): the context is fresh while the callback of
\* the old one is still running.
C13_Witness ==
    /\ stack["A"] # <<>>
    /\ stack["A"][1].op = "trigger_finish" /\ stack["A"][1].stale
    /\ last.op = "init_ctx" /\ last.arg.calloc_ok /\ last.arg.request_id = 2
    /\ HasCtx("A")
    /\ tokio_bridge_is_finished("A") = 0
    /\ tokio_bridge_get_finished_response_code("A") = 200

(***************************************************************************)
(* C14.  A thread never has more than one allocated context, and the one   *)
(* it has is the one in its slot.  tokio_bridge_init_ctx frees an existing *)
(* context before it allocates: its slot then holds the new context, or    *)
(* nothing when calloc failed - the old context is gone in both cases.     *)
(* tokio_bridge_destroy_ctx leaves the slot empty and changes nothing when *)
(* the slot is empty already.                                              *)
(***************************************************************************)
C14_OneContextPerThread ==
    [][\A t \in Threads :
        /\ allocated'[t] \in {0, 1}
        /\ allocated'[t] = Len(tokio_bridge_get_ctx(t)')
        /\ Calls(t, "init_ctx")
            => /\ last'.arg.calloc_ok => tokio_bridge_get_ctx(t)' # <<>>
               /\ ~last'.arg.calloc_ok => tokio_bridge_get_ctx(t)' = <<>>
               /\ \A i \in DOMAIN stack'[t] : stack'[t][i].stale
        /\ Calls(t, "destroy_ctx")
            => /\ tokio_bridge_get_ctx(t)' = <<>>
               /\ ~HasCtx(t) => /\ tls_ctx' = tls_ctx
                                /\ stack' = stack
                                /\ allocated' = allocated
                                /\ finish_invocations' = finish_invocations
      ]_vars

\* tokio_bridge_init_ctx was called from the finish callback of a live
\* context and calloc failed: the slot is empty and nothing is allocated.
C14_Witness ==
    /\ stack["A"] # <<>>
    /\ stack["A"][1].op = "trigger_finish" /\ stack["A"][1].stale
    /\ last.op = "init_ctx" /\ ~last.arg.calloc_ok
    /\ tokio_bridge_get_ctx("A") = <<>>
    /\ allocated["A"] = 0

(***************************************************************************)
(* Vocabulary of the no-context properties.                                *)
(***************************************************************************)
\* The bridge operations that return an int.
IntOps == {"trigger_finish", "send_heartbeat", "add_header",
           "try_enable_streaming", "send_chunk"}

\* This step is thread t entering a bridge operation other than
\* tokio_bridge_init_ctx while its slot is empty.
CallsWithoutCtx(t) ==
    /\ ~HasCtx(t)
    /\ last'.t = t
    /\ last'.kind # "return"
    /\ last'.op # "init_ctx"

\* What such a call does: it returns at once, 0 if it returns an int, the
\* slot stays empty and no callback is invoked.
BenignNoOp(t) ==
    /\ last'.kind = "done"
    /\ last'.op \in IntOps => last'.ret = 0
    /\ tls_ctx' = tls_ctx
    /\ tokio_bridge_get_ctx(t)' = <<>>
    /\ stack' = stack
    /\ finish_invocations' = finish_invocations
    /\ allocated' = allocated

\* The getters that return 0 on an empty slot do.
ZeroGetters(t) ==
    /\ tokio_bridge_is_finished(t) = 0
    /\ tokio_bridge_get_finished_offset(t) = 0
    /\ tokio_bridge_get_finished_header_count(t) = 0
    /\ tokio_bridge_get_heartbeat_max(t) = 0
    /\ tokio_bridge_get_stream_offset(t) = 0
    /\ tokio_bridge_get_header_count(t) = 0
    /\ tokio_bridge_is_streaming(t) = 0
    /\ tokio_bridge_get_header(t, 0).ret = 0

(***************************************************************************)
(* C15 as claimed.  Every bridge operation called on a thread whose slot   *)
(* is empty returns 0 or does nothing, leaves the slot empty and invokes   *)
(* no callback, and every getter - finished offset, finished header count, *)
(* finished response code, heartbeat maximum, stream offset, header count  *)
(* - returns 0.                                                            *)
(***************************************************************************)
C15_NoContextAllZero ==
    [][\A t \in Threads :
        /\ CallsWithoutCtx(t) => BenignNoOp(t)
        /\ tokio_bridge_get_ctx(t)' = <<>>
            => /\ ZeroGetters(t)'
               /\ tokio_bridge_get_finished_response_code(t)' = 0
      ]_vars

(***************************************************************************)
(* C15 as amended.  Every bridge operation called on a thread whose slot   *)
(* is empty (before init, after destroy, after an init whose calloc        *)
(* failed) returns 0 or does nothing, leaves the slot empty and invokes no *)
(* callback; the getters return 0, except                                  *)
(* tokio_bridge_get_finished_response_code, which returns 200.             *)
(***************************************************************************)
C15_NoContextBenign ==
    [][\A t \in Threads :
        /\ CallsWithoutCtx(t) => BenignNoOp(t)
        /\ tokio_bridge_get_ctx(t)' = <<>>
            => /\ ZeroGetters(t)'
               /\ tokio_bridge_get_finished_response_code(t)' = 200
      ]_vars

\* The running finish callback destroyed the context and then called
\* tokio_bridge_add_header with a proper name: 0 was returned.
C15_Witness ==
    /\ tokio_bridge_get_ctx("A") = <<>>
    /\ stack["A"] # <<>>
    /\ last.op = "add_header" /\ last.ret = 0
    /\ last.arg.name = <<XA>> /\ last.arg.name_len = 3
    /\ tokio_bridge_get_finished_response_code("A") = 200

(***************************************************************************)
(* Vocabulary of the isolation property.                                   *)
(***************************************************************************)
\* Everything thread u can observe of the bridge: its slot, what each
\* accessor returns, the callbacks and opaque pointers registered in its
\* context, and the callbacks running on it.
Observed(u) ==
    [ ctx                   |-> tokio_bridge_get_ctx(u),
      is_finished           |-> tokio_bridge_is_finished(u),
      finished_offset       |-> tokio_bridge_get_finished_offset(u),
      finished_header_count |-> tokio_bridge_get_finished_header_count(u),
      response_code         |-> tokio_bridge_get_finished_response_code(u),
      header_count          |-> tokio_bridge_get_header_count(u),
      header                |-> tokio_bridge_get_header(u, 0),
      is_streaming          |-> tokio_bridge_is_streaming(u),
      stream_offset         |-> tokio_bridge_get_stream_offset(u),
      heartbeat_max         |-> tokio_bridge_get_heartbeat_max(u),
      callbacks             |-> IF HasCtx(u)
                                THEN <<Ctx(u).finish_callback, Ctx(u).finish_ctx,
                                       Ctx(u).heartbeat_callback, Ctx(u).heartbeat_ctx,
                                       Ctx(u).stream_callback, Ctx(u).stream_ctx>>
                                ELSE <<>>,
      running               |-> stack[u],
      invoked               |-> finish_invocations[u] ]

(***************************************************************************)
(* C16.  With two worker threads interleaving bridge operations, a step of *)
(* one thread leaves everything the other thread observes as it was -      *)
(* slot, finished flag, snapshot, headers, stream state, heartbeat         *)
(* configuration, callbacks - and a callback is invoked on the thread that *)
(* made the call and on no other.                                          *)
(***************************************************************************)
C16_ThreadIsolation ==
    [][\A u \in Threads :
        /\ last'.t # u => Observed(u)' = Observed(u)
        /\ (last'.t = u /\ last'.kind = "call")
            => /\ Len(stack'[u]) = Len(stack[u]) + 1
               /\ \A v \in Threads \ {u} : stack'[v] = stack[v]
      ]_vars

\* The finish callback of thread A is running on A's finished context,
\* which holds no header; thread B has then added a header to its own
\* context, which is not finished and not streaming.
C16_Witness ==
    /\ HasCtx("A") /\ HasCtx("B")
    /\ tokio_bridge_is_finished("A") = 1
    /\ RunningFinish("A") # {}
    /\ stack["B"] = <<>>
    /\ tokio_bridge_is_finished("B") = 0
    /\ tokio_bridge_get_header_count("A") = 0
    /\ tokio_bridge_get_header_count("B") = 1
    /\ tokio_bridge_is_streaming("A") = 1
    /\ tokio_bridge_is_streaming("B") = 0
    /\ last.t = "B" /\ last.op = "add_header" /\ last.ret = 1

(***************************************************************************)
(* Vocabulary of the heartbeat properties.                                 *)
(***************************************************************************)
\* A request for secs more seconds is one the bridge forwards: the thread
\* has a context with a heartbeat callback and 0 < secs <= heartbeat_max_secs.
Forwarded(t, secs) ==
    /\ HasCtx(t)
    /\ Ctx(t).heartbeat_callback # NULL
    /\ secs # 0
    /\ secs <= Ctx(t).heartbeat_max_secs

\* This step is the return of operation op of thread t from its callback.
Returns(t, op) == last'.t = t /\ last'.op = op /\ last'.kind = "return"

(***************************************************************************)
(* C17.  tokio_bridge_send_heartbeat(secs) returns 0 without invoking the  *)
(* callback when there is no callback, when secs = 0 and when              *)
(* secs > heartbeat_max_secs; otherwise it invokes the callback once, with *)
(* the registered ctx and secs, and returns 1 if the callback's result is  *)
(* non-zero and 0 if it is zero.  tokio_request_heartbeat(time) returns    *)
(* false for time <= 0 without calling the bridge, and otherwise what      *)
(* tokio_bridge_send_heartbeat(time) returns.                              *)
(***************************************************************************)
C17_HeartbeatBound ==
    [][\A t \in Threads :
        /\ Calls(t, "send_heartbeat")
            => IF Forwarded(t, last'.arg.secs)
               THEN /\ last'.kind = "call"
                    /\ Len(stack'[t]) = Len(stack[t]) + 1
                    /\ last'.arg = [callback |-> Ctx(t).heartbeat_callback,
                                    ctx      |-> Ctx(t).heartbeat_ctx,
                                    secs     |-> last'.arg.secs]
               ELSE /\ last'.kind = "done"
                    /\ last'.ret = 0
                    /\ stack' = stack
        /\ Returns(t, "send_heartbeat")
            => /\ last'.ret = (IF last'.arg.result # 0 THEN 1 ELSE 0)
               /\ Len(stack'[t]) = Len(stack[t]) - 1
        /\ Calls(t, "request_heartbeat")
            => IF last'.arg.time <= 0
               THEN /\ last'.kind = "done"
                    /\ last'.ret = FALSE
                    /\ last'.arg.bridge = <<>>
                    /\ stack' = stack
               ELSE IF Forwarded(t, last'.arg.time)
               THEN /\ last'.kind = "call"
                    /\ Len(stack'[t]) = Len(stack[t]) + 1
                    /\ last'.arg = [callback |-> Ctx(t).heartbeat_callback,
                                    ctx      |-> Ctx(t).heartbeat_ctx,
                                    secs     |-> last'.arg.time,
                                    time     |-> last'.arg.time]
               ELSE /\ last'.kind = "done"
                    /\ last'.ret = FALSE
                    /\ last'.arg.bridge = <<last'.arg.time>>
                    /\ stack' = stack
        /\ Returns(t, "request_heartbeat")
            => /\ last'.ret = (last'.arg.result # 0)
               /\ Len(stack'[t]) = Len(stack[t]) - 1
      ]_vars

\* With a maximum of 2, tokio_bridge_send_heartbeat(2) invoked the callback,
\* whose result was -1, and returned 1.
C17_Witness ==
    /\ HasCtx("A")
    /\ tokio_bridge_get_heartbeat_max("A") = 2
    /\ last.op = "send_heartbeat" /\ last.kind = "return"
    /\ last.arg.secs = 2 /\ last.arg.result = 0 - 1
    /\ last.ret = 1

(***************************************************************************)
(* C18.  A heartbeat request is forwarded exactly when its own secs, the   *)
(* configured maximum and the presence of a callback allow it, whatever    *)
(* requests were forwarded, granted or refused before it or are in         *)
(* progress; no request, forwarded or rejected, and no callback result     *)
(* changes heartbeat_max_secs or any other field of the context, so        *)
(* requests adding up to more than the maximum are all forwarded.          *)
(***************************************************************************)
C18_HeartbeatIndependent ==
    [][\A t \in Threads :
        /\ (last'.t = t /\ last'.op \in {"send_heartbeat", "request_heartbeat"})
            => /\ tls_ctx' = tls_ctx
               /\ tokio_bridge_get_heartbeat_max(t)'
                    = tokio_bridge_get_heartbeat_max(t)
        /\ Calls(t, "send_heartbeat")
            => (last'.kind = "call" <=> Forwarded(t, last'.arg.secs))
      ]_vars

\* With a maximum of 2, a request for 2 seconds was forwarded and, while
\* its callback runs, a second request for 2 seconds was forwarded and
\* granted: 4 seconds requested and accepted against a ceiling of 2.
C18_Witness ==
    /\ HasCtx("A")
    /\ tokio_bridge_get_heartbeat_max("A") = 2
    /\ Len(stack["A"]) = 1
    /\ stack["A"][1].op = "send_heartbeat"
    /\ ~stack["A"][1].stale
    /\ stack["A"][1].arg.secs = 2
    /\ last.op = "send_heartbeat" /\ last.kind = "return"
    /\ last.arg.secs = 2 /\ last.ret = 1

(***************************************************************************)
(* C19.  tokio_bridge_enable_streaming(ctx, callback) on a live context    *)
(* stores ctx and callback, sets is_streaming to 1 and the stream offset   *)
(* to 0 and leaves every other field, whether the context was streaming    *)
(* or not, whatever its stream offset and callback were.                   *)
(***************************************************************************)
C19_EnableForcesStreaming ==
    [][\A t \in Threads :
        (HasCtx(t) /\ Calls(t, "enable_streaming"))
            => /\ tokio_bridge_is_streaming(t)' = 1
               /\ tokio_bridge_get_stream_offset(t)' = 0
               /\ tls_ctx'[t] =
                    <<[Ctx(t) EXCEPT !.is_streaming = 1,
                                     !.stream_offset = 0,
                                     !.stream_ctx = last'.arg.ctx,
                                     !.stream_callback = last'.arg.callback]>>
      ]_vars

\* The running stream callback of a streaming context has called
\* tokio_bridge_enable_streaming(NULL, NULL): the context is streaming, at
\* offset 0, with no callback.
C19_Witness ==
    /\ HasCtx("A")
    /\ stack["A"] # <<>>
    /\ stack["A"][1].op = "send_chunk" /\ ~stack["A"][1].stale
    /\ last.op = "enable_streaming" /\ last.arg.callback = NULL
    /\ tokio_bridge_is_streaming("A") = 1
    /\ tokio_bridge_get_stream_offset("A") = 0
    /\ Ctx("A").stream_callback = NULL

(***************************************************************************)
(* Vocabulary of the arming properties.                                    *)
(***************************************************************************)
\* tokio_bridge_set_stream_callback stores ctx and callback.
ArmStores(t) ==
    (HasCtx(t) /\ Calls(t, "set_stream_callback"))
        => /\ tls_ctx'[t] # <<>>
           /\ Ctx(t)'.stream_ctx = last'.arg.ctx
           /\ Ctx(t)'.stream_callback = last'.arg.callback

\* A context that is not streaming stays so through every operation but
\* tokio_bridge_try_enable_streaming and tokio_bridge_enable_streaming.
StaysDisabled(t) ==
    (/\ tokio_bridge_is_streaming(t) = 0
     /\ last'.t = t
     /\ last'.op \notin {"try_enable_streaming", "enable_streaming"})
        => tokio_bridge_is_streaming(t)' = 0

\* tokio_bridge_try_enable_streaming on a context that is not streaming
\* flips is_streaming exactly when a callback is present, and returns that.
TryEnableNeedsCallback(t) ==
    (/\ HasCtx(t)
     /\ tokio_bridge_is_streaming(t) = 0
     /\ Calls(t, "try_enable_streaming"))
        => /\ tokio_bridge_is_streaming(t)' = 1 <=> Ctx(t).stream_callback # NULL
           /\ last'.ret = 1 <=> Ctx(t).stream_callback # NULL

(***************************************************************************)
(* C20.  After tokio_bridge_set_stream_callback(ctx, callback), from any   *)
(* state of the context, tokio_bridge_is_streaming() returns 0, and goes   *)
(* on returning 0 until tokio_bridge_try_enable_streaming or               *)
(* tokio_bridge_enable_streaming is called; tokio_bridge_try_enable_       *)
(* streaming then sets it to 1 only if the callback is not NULL.           *)
(***************************************************************************)
C20_ArmLeavesDisabled ==
    [][\A t \in Threads :
        /\ ArmStores(t)
        /\ Calls(t, "set_stream_callback") => tokio_bridge_is_streaming(t)' = 0
        /\ StaysDisabled(t)
        /\ TryEnableNeedsCallback(t)
      ]_vars

\* What holds of arming: on a context that is not streaming it stores the
\* callback and leaves streaming off until it is enabled, and try_enable
\* needs a callback.
ArmOnIdleContext ==
    [][\A t \in Threads :
        /\ ArmStores(t)
        /\ (Calls(t, "set_stream_callback") /\ tokio_bridge_is_streaming(t) = 0)
            => tokio_bridge_is_streaming(t)' = 0
        /\ StaysDisabled(t)
        /\ TryEnableNeedsCallback(t)
      ]_vars

(***************************************************************************)
(* C21.  tokio_bridge_try_enable_streaming() on a live context: when the   *)
(* context is streaming already it returns 1 and changes nothing; when it  *)
(* is not streaming and a stream callback is registered it returns 1 and   *)
(* sets is_streaming to 1, leaving the offset, the callback, its ctx and   *)
(* every other field; when it is not streaming and no callback is          *)
(* registered it returns 0 and changes nothing.  A call that directly      *)
(* follows another one returns what that one returned and changes nothing. *)
(***************************************************************************)
C21_TryEnableIdempotent ==
    [][\A t \in Threads :
        /\ (HasCtx(t) /\ Calls(t, "try_enable_streaming"))
            => /\ tokio_bridge_is_streaming(t) # 0
                    => last'.ret = 1 /\ tls_ctx' = tls_ctx
               /\ (tokio_bridge_is_streaming(t) = 0
                   /\ Ctx(t).stream_callback # NULL)
                    => /\ last'.ret = 1
                       /\ tls_ctx'[t] = <<[Ctx(t) EXCEPT !.is_streaming = 1]>>
               /\ (tokio_bridge_is_streaming(t) = 0
                   /\ Ctx(t).stream_callback = NULL)
                    => last'.ret = 0 /\ tls_ctx' = tls_ctx
        /\ (/\ last.t = t /\ last.op = "try_enable_streaming"
            /\ Calls(t, "try_enable_streaming"))
            => last'.ret = last.ret /\ tls_ctx' = tls_ctx
      ]_vars

\* The stream callback was armed, the offset set to 1, and
\* tokio_bridge_try_enable_streaming returned 1: the context streams, still
\* at offset 1, with the callback and ctx it was armed with.
C21_Witness ==
    /\ HasCtx("A")
    /\ last.op = "try_enable_streaming" /\ last.ret = 1
    /\ tokio_bridge_is_streaming("A") = 1
    /\ tokio_bridge_get_stream_offset("A") = 1
    /\ Ctx("A").stream_callback = "on_chunk"
    /\ Ctx("A").stream_ctx = "p3"

(***************************************************************************)
(* C22.  tokio_bridge_send_chunk(data, data_len) returns 0 and invokes     *)
(* nothing when there is no context, the context is not streaming, no      *)
(* stream callback is registered, data is NULL or data_len is 0.           *)
(* Otherwise it invokes the registered stream callback once, before it     *)
(* returns, with the registered ctx and with data and data_len as given,   *)
(* and returns 1 when the callback returns.  Neither the call nor the      *)
(* return changes is_streaming, the stream offset or any other field.      *)
(***************************************************************************)
C22_SendChunk ==
    [][\A t \in Threads :
        /\ (last'.t = t /\ last'.op = "send_chunk") => tls_ctx' = tls_ctx
        /\ Calls(t, "send_chunk")
            => IF /\ HasCtx(t)
                  /\ tokio_bridge_is_streaming(t) # 0
                  /\ Ctx(t).stream_callback # NULL
                  /\ last'.arg.data # <<>>
                  /\ last'.arg.data_len # 0
               THEN /\ last'.kind = "call"
                    /\ last'.arg.callback = Ctx(t).stream_callback
                    /\ last'.arg.ctx = Ctx(t).stream_ctx
                    /\ Len(stack'[t]) = Len(stack[t]) + 1
                    /\ stack'[t][Len(stack'[t])].op = "send_chunk"
                    /\ stack'[t][Len(stack'[t])].arg.data = last'.arg.data
                    /\ stack'[t][Len(stack'[t])].arg.data_len
                         = last'.arg.data_len
               ELSE /\ last'.kind = "done"
                    /\ last'.ret = 0
                    /\ stack' = stack
        /\ Returns(t, "send_chunk")
            => /\ last'.ret = 1
               /\ Len(stack'[t]) = Len(stack[t]) - 1
               /\ last'.arg = stack[t][Len(stack[t])].arg
      ]_vars

\* A one-byte chunk was handed to the stream callback of a context
\* streaming at offset 2, and the call has returned 1; the context still
\* streams at offset 2.
C22_Witness ==
    /\ HasCtx("A")
    /\ last.op = "send_chunk" /\ last.kind = "return"
    /\ last.ret = 1
    /\ last.arg.data = << <<"d">> >> /\ last.arg.data_len = 1
    /\ tokio_bridge_is_streaming("A") = 1
    /\ tokio_bridge_get_stream_offset("A") = MaxOffset

(***************************************************************************)
(* C23.  While streaming is enabled, no tokio_bridge_send_chunk or         *)
(* tokio_bridge_set_stream_offset call lowers the value that               *)
(* tokio_bridge_get_stream_offset() returns.                               *)
(***************************************************************************)
C23_OffsetMonotonic ==
    [][\A t \in Threads :
        (/\ HasCtx(t)
         /\ tokio_bridge_is_streaming(t) = 1
         /\ last'.t = t
         /\ last'.op \in {"send_chunk", "set_stream_offset"})
            => tokio_bridge_get_stream_offset(t)'
                 >= tokio_bridge_get_stream_offset(t)
      ]_vars

\* What holds of the offset: tokio_bridge_set_stream_offset stores the
\* value it is given, higher or lower, and tokio_bridge_send_chunk leaves
\* the offset alone.
OffsetIsWhatWasSet ==
    [][\A t \in Threads :
        /\ (HasCtx(t) /\ Calls(t, "set_stream_offset"))
            => tokio_bridge_get_stream_offset(t)' = last'.arg.offset
        /\ (last'.t = t /\ last'.op = "send_chunk")
            => tokio_bridge_get_stream_offset(t)'
                 = tokio_bridge_get_stream_offset(t)
      ]_vars

(***************************************************************************)
(* Vocabulary of the end-of-stream properties.                             *)
(***************************************************************************)
\* The stream slot is empty and streaming is off, as end_stream leaves it.
StreamEnded(t) ==
    /\ HasCtx(t)
    /\ tokio_bridge_is_streaming(t) = 0
    /\ Ctx(t).stream_callback = NULL

\* The operations that install a stream callback (or start a new context).
Installs == {"set_stream_callback", "enable_streaming", "init_ctx"}

(***************************************************************************)
(* C24.  tokio_bridge_end_stream() on a live context sets is_streaming and *)
(* the stream offset to 0 and the stream callback and ctx to NULL and      *)
(* leaves every other field; a second call changes nothing.  From then     *)
(* until tokio_bridge_set_stream_callback or tokio_bridge_enable_streaming *)
(* is called, the context stays that way and tokio_bridge_send_chunk and   *)
(* tokio_bridge_try_enable_streaming return 0; a later                     *)
(* tokio_bridge_enable_streaming in the same context turns streaming on    *)
(* again.                                                                  *)
(***************************************************************************)
C24_EndStream ==
    [][\A t \in Threads :
        /\ (HasCtx(t) /\ Calls(t, "end_stream"))
            => /\ tls_ctx'[t] = <<[Ctx(t) EXCEPT !.is_streaming = 0,
                                                  !.stream_offset = 0,
                                                  !.stream_ctx = NULL,
                                                  !.stream_callback = NULL]>>
               /\ StreamEnded(t)'
               /\ StreamEnded(t) /\ tokio_bridge_get_stream_offset(t) = 0
                    /\ Ctx(t).stream_ctx = NULL
                    => tls_ctx' = tls_ctx
        /\ (StreamEnded(t) /\ last'.t = t /\ last'.op \notin Installs)
            => StreamEnded(t)'
        /\ (StreamEnded(t) /\ Calls(t, "send_chunk"))
            => last'.kind = "done" /\ last'.ret = 0
        /\ (StreamEnded(t) /\ Calls(t, "try_enable_streaming"))
            => last'.ret = 0
        /\ (StreamEnded(t) /\ Calls(t, "enable_streaming"))
            => tokio_bridge_is_streaming(t)' = 1
      ]_vars

\* The stream callback of this context is still running (so the context
\* was streaming with a callback), the stream has been ended from inside
\* it, and tokio_bridge_try_enable_streaming has returned 0.
C24_Witness ==
    /\ StreamEnded("A")
    /\ stack["A"] # <<>>
    /\ stack["A"][1].op = "send_chunk" /\ ~stack["A"][1].stale
    /\ last.op = "try_enable_streaming" /\ last.ret = 0
    /\ tokio_bridge_get_stream_offset("A") = 0
    /\ Ctx("A").stream_ctx = NULL

(***************************************************************************)
(* Vocabulary of the orthogonality property.                               *)
(***************************************************************************)
\* The streaming fields of a thread's context.
StreamState(t) ==
    <<tokio_bridge_is_streaming(t), tokio_bridge_get_stream_offset(t),
      IF HasCtx(t) THEN Ctx(t).stream_callback ELSE NULL,
      IF HasCtx(t) THEN Ctx(t).stream_ctx ELSE NULL>>

\* The finish fields of a thread's context.
FinishState(t) ==
    <<tokio_bridge_is_finished(t),
      IF HasCtx(t) THEN Snapshot(t) ELSE <<>> >>

StreamOps == {"enable_streaming", "set_stream_callback",
              "try_enable_streaming", "send_chunk", "set_stream_offset",
              "end_stream"}

(***************************************************************************)
(* C25.  tokio_bridge_mark_finished and tokio_bridge_trigger_finish never  *)
(* change is_streaming, the stream offset, the stream callback or its ctx; *)
(* the streaming operations never change is_finished or the finish         *)
(* snapshot; and tokio_bridge_send_chunk hands a chunk to the stream       *)
(* callback of a streaming context whether the context is finished or not. *)
(***************************************************************************)
C25_StreamingOrthogonal ==
    [][\A t \in Threads :
        /\ (last'.t = t /\ last'.op \in {"mark_finished", "trigger_finish"})
            => StreamState(t)' = StreamState(t)
        /\ (last'.t = t /\ last'.op \in StreamOps)
            => FinishState(t)' = FinishState(t)
        /\ (/\ HasCtx(t) /\ Calls(t, "send_chunk")
            /\ tokio_bridge_is_streaming(t) # 0
            /\ Ctx(t).stream_callback # NULL
            /\ last'.arg.data # <<>> /\ last'.arg.data_len # 0)
            => last'.kind = "call"
      ]_vars

\* The request was finished through tokio_bridge_trigger_finish while
\* streaming at offset 1, and a chunk sent after that has reached the
\* stream callback; the snapshot and the offset are as they were.
C25_Witness ==
    /\ HasCtx("A")
    /\ tokio_bridge_is_finished("A") = 1
    /\ Snapshot("A") = <<2, 1, 201>>
    /\ tokio_bridge_is_streaming("A") = 1
    /\ tokio_bridge_get_stream_offset("A") = 1
    /\ last.op = "send_chunk" /\ last.kind = "call"
    /\ last.arg.callback = "on_chunk"

(***************************************************************************)
(* Vocabulary of the callback-slot properties.                             *)
(***************************************************************************)
\* The three slots of a thread's context: function and ctx.
FinishSlot(t) ==
    IF HasCtx(t) THEN <<Ctx(t).finish_callback, Ctx(t).finish_ctx>>
    ELSE <<NULL, NULL>>

HeartbeatSlot(t) ==
    IF HasCtx(t) THEN <<Ctx(t).heartbeat_callback, Ctx(t).heartbeat_ctx>>
    ELSE <<NULL, NULL>>

StreamSlot(t) ==
    IF HasCtx(t) THEN <<Ctx(t).stream_callback, Ctx(t).stream_ctx>>
    ELSE <<NULL, NULL>>

\* The slot an operation calls through.
SlotOf(t, op) ==
    CASE op = "trigger_finish" -> FinishSlot(t)
      [] op \in {"send_heartbeat", "request_heartbeat"} -> HeartbeatSlot(t)
      [] op = "send_chunk" -> StreamSlot(t)

Dependent == {"trigger_finish", "send_heartbeat", "send_chunk"}

\* No callback is invoked through a slot holding NULL.
NeverCallsThroughNull(t) ==
    (last'.t = t /\ last'.kind = "call")
        => /\ last'.arg.callback # NULL
           /\ last'.arg.callback = SlotOf(t, last'.op)[1]

(***************************************************************************)
(* C26.  A callback is invoked only through a slot holding a function: no  *)
(* invocation passes through NULL, and with its slot holding NULL (never   *)
(* configured, configured with NULL, or cleared by end_stream) each of     *)
(* tokio_bridge_trigger_finish, tokio_bridge_send_chunk and                *)
(* tokio_bridge_send_heartbeat returns 0 and changes nothing.              *)
(***************************************************************************)
C26_FailClosed ==
    [][\A t \in Threads :
        /\ NeverCallsThroughNull(t)
        /\ \A op \in Dependent :
             (HasCtx(t) /\ Calls(t, op) /\ SlotOf(t, op)[1] = NULL)
                => /\ last'.kind = "done" /\ last'.ret = 0
                   /\ tls_ctx' = tls_ctx
      ]_vars

\* What holds of the slots: nothing is called through NULL, and
\* tokio_bridge_send_chunk and tokio_bridge_send_heartbeat return 0 and
\* change nothing when their slot holds NULL.
FailClosedButFinish ==
    [][\A t \in Threads :
        /\ NeverCallsThroughNull(t)
        /\ \A op \in Dependent \ {"trigger_finish"} :
             (HasCtx(t) /\ Calls(t, op) /\ SlotOf(t, op)[1] = NULL)
                => /\ last'.kind = "done" /\ last'.ret = 0
                   /\ tls_ctx' = tls_ctx
      ]_vars

(***************************************************************************)
(* C27.  Configuring a slot stores the ctx and the function it is given    *)
(* and leaves the other two slots; a slot changes only when it is          *)
(* configured (or cleared by end_stream, or the context is initialised),   *)
(* and every callback invocation receives the function's slot ctx as it is *)
(* then, that is, the ctx of the most recent configuration of that slot.   *)
(***************************************************************************)
C27_CtxVerbatim ==
    [][\A t \in Threads :
        /\ (HasCtx(t) /\ Calls(t, "set_finish_callback"))
            => /\ FinishSlot(t)' = <<last'.arg.callback, last'.arg.ctx>>
               /\ tls_ctx'[t] =
                    <<[Ctx(t) EXCEPT !.finish_ctx = last'.arg.ctx,
                                     !.finish_callback = last'.arg.callback]>>
        /\ (HasCtx(t) /\ Calls(t, "set_heartbeat"))
            => /\ HeartbeatSlot(t)' = <<last'.arg.callback, last'.arg.ctx>>
               /\ FinishSlot(t)' = FinishSlot(t)
               /\ StreamSlot(t)' = StreamSlot(t)
        /\ (HasCtx(t)
            /\ (Calls(t, "enable_streaming") \/ Calls(t, "set_stream_callback")))
            => /\ StreamSlot(t)' = <<last'.arg.callback, last'.arg.ctx>>
               /\ FinishSlot(t)' = FinishSlot(t)
               /\ HeartbeatSlot(t)' = HeartbeatSlot(t)
        /\ (last'.t = t /\ last'.op \notin {"set_finish_callback", "init_ctx"})
            => FinishSlot(t)' = FinishSlot(t)
        /\ (last'.t = t /\ last'.op \notin {"set_heartbeat", "init_ctx"})
            => HeartbeatSlot(t)' = HeartbeatSlot(t)
        /\ (last'.t = t
            /\ last'.op \notin {"enable_streaming", "set_stream_callback",
                                "end_stream", "init_ctx"})
            => StreamSlot(t)' = StreamSlot(t)
        /\ (last'.t = t /\ last'.kind = "call")
            => /\ last'.arg.ctx = SlotOf(t, last'.op)[2]
               /\ last'.arg.callback = SlotOf(t, last'.op)[1]
      ]_vars

\* The heartbeat slot holds ctx p4 and the stream slot ctx p5, the finish
\* slot was configured with ctx p2, and the finish callback has just been
\* invoked with p2.
C27_Witness ==
    /\ HasCtx("A")
    /\ HeartbeatSlot("A") = <<"on_heartbeat2", "p4">>
    /\ StreamSlot("A") = <<"on_chunk", "p5">>
    /\ FinishSlot("A") = <<"on_finish", "p2">>
    /\ last.op = "trigger_finish" /\ last.kind = "call"
    /\ last.arg.ctx = "p2" /\ last.arg.callback = "on_finish"

(***************************************************************************)
(* Vocabulary of the header blob property.                                 *)
(***************************************************************************)
\* The NUL-terminated strings of a blob, in order; cur is the string being
\* read.
RECURSIVE Fields(_, _)
Fields(b, cur) ==
    IF b = <<>> THEN <<>>
    ELSE IF Head(b) = NUL THEN <<cur>> \o Fields(Tail(b), <<>>)
    ELSE Fields(Tail(b), Append(cur, Head(b)))

\* The name/value pairs of a blob, as ledger entries.
PairsOf(b) ==
    [i \in 1..(Len(Fields(b, <<>>)) \div 2) |->
        [name  |-> <<Fields(b, <<>>)[2 * i - 1]>>,
         value |-> <<Fields(b, <<>>)[2 * i]>>]]

\* A blob is flat: it ends with NUL and holds an even number of strings.
Flat(b) ==
    /\ b # <<>>
    /\ b[Len(b)] = NUL
    /\ Len(Fields(b, <<>>)) % 2 = 0

\* The ledger entries that have a value.
RECURSIVE WithValue(_)
WithValue(hs) ==
    IF hs = <<>> THEN <<>>
    ELSE (IF Head(hs).value # <<>> THEN <<Head(hs)>> ELSE <<>>)
         \o WithValue(Tail(hs))

(***************************************************************************)
(* C30.  A blob returned by serialize_sapi_headers is name\0value\0...     *)
(* with one pair for every entry of the bridge ledger, in insertion order; *)
(* the reported length is the number of bytes written and the reported     *)
(* count is the number of pairs in the blob; when no blob is returned both *)
(* are 0.                                                                  *)
(***************************************************************************)
C30_BlobHoldsLedger ==
    [][\A t \in Threads :
        Calls(t, "serialize_sapi_headers")
            => IF last'.ret.buf = <<>>
               THEN last'.ret.len = 0 /\ last'.ret.count = 0
               ELSE /\ Flat(last'.ret.buf[1])
                    /\ PairsOf(last'.ret.buf[1]) = Ctx(t).headers
                    /\ last'.ret.len = Len(last'.ret.buf[1])
                    /\ last'.ret.count = Len(PairsOf(last'.ret.buf[1]))
      ]_vars

\* What holds of the blob: it is flat, its pairs are the ledger entries
\* that have a value, in insertion order, and length and count are those
\* of the blob.
BlobHoldsValuedEntries ==
    [][\A t \in Threads :
        Calls(t, "serialize_sapi_headers")
            => IF last'.ret.buf = <<>>
               THEN last'.ret.len = 0 /\ last'.ret.count = 0
               ELSE /\ Flat(last'.ret.buf[1])
                    /\ PairsOf(last'.ret.buf[1]) = WithValue(Ctx(t).headers)
                    /\ last'.ret.len = Len(last'.ret.buf[1])
                    /\ last'.ret.count = Len(PairsOf(last'.ret.buf[1]))
      ]_vars

\* A ledger of X-A: 1 and Y-B with an empty value has been serialized to
\* the 11 bytes X-A\0 1\0 Y-B\0 \0, reported as 2 pairs.
BlobBuilt ==
    /\ last.op = "serialize_sapi_headers"
    /\ last.ret.count = 2 /\ last.ret.len = 11
    /\ last.ret.buf = << XA \o <<NUL, "1", NUL>> \o YB \o <<NUL, NUL>> >>

(***************************************************************************)
(* C28.  When the request is finished, as it is after a call of            *)
(* tokio_finish_request() that returned true, a call of                    *)
(* tokio_finish_request() returns true at once: it ends no output buffer,  *)
(* writes nothing, invokes no callback and leaves the context, and with it *)
(* the finish snapshot, unchanged.                                         *)
(***************************************************************************)
C28_FinishRequestTwice ==
    [][\A t \in Threads :
        /\ (last'.t = t /\ last'.op = "finish_request"
            /\ last'.kind \in {"done", "return"} /\ last'.ret = TRUE)
            => tokio_bridge_is_finished(t)' = 1
        /\ (HasCtx(t) /\ tokio_bridge_is_finished(t) = 1
            /\ Calls(t, "finish_request"))
            => /\ last'.kind = "done" /\ last'.ret = TRUE
               /\ php'[t].ob = php[t].ob
               /\ memfd' = memfd
               /\ stack' = stack
               /\ finish_invocations' = finish_invocations
               /\ tls_ctx' = tls_ctx
      ]_vars

\* tokio_finish_request() had returned true, the script then wrote a byte
\* into the output buffer opened for post-finish output, and a second
\* tokio_finish_request() has returned true with that buffer still open
\* and holding the byte.
C28_Witness ==
    /\ HasCtx("A")
    /\ tokio_bridge_is_finished("A") = 1
    /\ last.op = "finish_request" /\ last.kind = "done" /\ last.ret = TRUE
    /\ php["A"].ob = << <<"z">> >>
    /\ stack["A"] = <<>>

(***************************************************************************)
(* Vocabulary of the post-finish output property.                          *)
(***************************************************************************)
\* The operations that hand bytes to the stream callback.
Delivers == {"sapi_flush", "stream_flush"}

\* No byte of a chunk was written after tokio_finish_request returned true.
PreFinishOnly(data) == \A i \in 1..Len(data) : data[i] # "z"

C31_FlushReentrancy ==
    [][\A t \in Threads :
        /\ (Calls(t, "sapi_flush") /\ php[t].flush_in_progress # 0
            /\ last'.kind \in {"busy", "enter"})
            => /\ last'.kind = "busy"
               /\ UNCHANGED <<tls_ctx, stack, php, memfd>>
        /\ (last'.t = t /\ last'.op = "sapi_flush"
            /\ last'.kind \in {"done", "return"})
            => php'[t].flush_in_progress = 0
        /\ (last'.t = t /\ last'.op = "sapi_flush" /\ last'.kind = "enter")
            => php[t].flush_in_progress = 0 /\ php'[t].flush_in_progress = 1
        /\ (last'.t = t /\ last'.op \notin {"sapi_flush"})
            => php'[t].flush_in_progress = php[t].flush_in_progress
      ]_vars

\* While a tokio_sapi_flush was in progress with a buffered byte to flush,
\* the handler was entered again and returned at once: the byte is still
\* in its buffer, nothing was written and the offset is 0.
C31_Witness ==
    /\ last.op = "sapi_flush" /\ last.kind = "busy"
    /\ php["A"].flush_in_progress = 1
    /\ php["A"].ob = << <<"a">> >>
    /\ memfd = <<>>
    /\ tokio_bridge_is_streaming("A") = 1
    /\ tokio_bridge_get_stream_offset("A") = 0

(***************************************************************************)
(* Vocabulary of the chunk integrity property.                             *)
(***************************************************************************)
\* A flush function of a streaming context has flushed the buffers and
\* returned, invoked the stream callback, or stayed in its buffer loop.
FlushStep(t) ==
    /\ last'.t = t /\ last'.op \in Delivers
    /\ last'.kind \in {"done", "call", "spin"}
    /\ tokio_bridge_is_streaming(t) = 1

\* There are bytes on STDOUT_FILENO beyond the stored stream offset.
NewOutput(t) == Len(memfd') > tokio_bridge_get_stream_offset(t)

\* The step did not run into a failed allocation.
Allocated == last'.kind = "done" => last'.arg.malloc_ok

\* A chunk handed to the stream callback is the bytes from the stored
\* offset to the current end, and the return sets the offset to that end.
ExactChunk(t) ==
    /\ (last'.t = t /\ last'.op \in Delivers /\ last'.kind = "call")
        => /\ NewOutput(t)
           /\ last'.arg.data =
                << SubSeq(memfd', tokio_bridge_get_stream_offset(t) + 1,
                          Len(memfd')) >>
           /\ last'.arg.data_len = Len(last'.arg.data[1])
    /\ (last'.t = t /\ last'.op \in Delivers /\ last'.kind = "return")
        => /\ tokio_bridge_get_stream_offset(t)'
                = tokio_bridge_get_stream_offset(t) + last'.arg.data_len
           /\ tokio_bridge_get_stream_offset(t)' = Len(memfd)

(***************************************************************************)
(* C32.  While streaming is enabled, every flush() and every               *)
(* tokio_stream_flush() that finds bytes beyond the stored stream offset   *)
(* hands exactly those bytes to the stream callback and then sets the      *)
(* offset to their end, and the offset moves in no other way, also when    *)
(* the flush handler runs from inside the buffer loop of                   *)
(* tokio_stream_flush: no byte is delivered twice or skipped.              *)
(***************************************************************************)
C32_ChunkIntegrity ==
    [][\A t \in Threads :
        /\ ExactChunk(t)
        /\ (FlushStep(t) /\ NewOutput(t) /\ Allocated)
            => last'.kind = "call"
        /\ (last'.t = t /\ last'.op \in Delivers /\ last'.kind # "return")
            => tokio_bridge_get_stream_offset(t)'
                 = tokio_bridge_get_stream_offset(t)
      ]_vars

\* What holds of flushing: chunks are exact; a flush that leaves its
\* buffer loop, with a stream callback registered, delivers the new bytes;
\* the offset moves only at the return from the callback and, past bytes
\* that were not delivered, when no callback is registered.
ChunksExactWithCallback ==
    [][\A t \in Threads :
        /\ ExactChunk(t)
        /\ (FlushStep(t) /\ NewOutput(t) /\ Allocated
            /\ last'.kind # "spin" /\ Ctx(t).stream_callback # NULL)
            => last'.kind = "call"
        /\ (last'.t = t /\ last'.op \in Delivers /\ last'.kind # "return"
            /\ HasCtx(t) /\ Ctx(t).stream_callback # NULL)
            => tokio_bridge_get_stream_offset(t)'
                 = tokio_bridge_get_stream_offset(t)
      ]_vars

\* tokio_stream_flush() does not leave its buffer loop, and the flush
\* handler, entered from inside that loop, has delivered the two bytes the
\* loop had flushed.
NestedFlushDelivered ==
    /\ php["A"].spin
    /\ last.op = "sapi_flush" /\ last.kind = "return"
    /\ last.arg.data = << <<"a", "a">> >>
    /\ tokio_bridge_get_stream_offset("A") = 2

(***************************************************************************)
(* C33.  Whenever tokio_bridge_is_streaming() returns 1 a stream callback  *)
(* is registered, so that after tokio_bridge_try_enable_streaming          *)
(* returned 1 a tokio_bridge_send_chunk with non-empty data is handed to   *)
(* the callback.                                                           *)
(***************************************************************************)
C33_StreamingHasCallback ==
    \A t \in Threads :
        tokio_bridge_is_streaming(t) = 1 => Ctx(t).stream_callback # NULL

\* What holds: a context comes to stream without a callback only through
\* tokio_bridge_enable_streaming with a NULL callback or through
\* tokio_bridge_set_stream_callback with a NULL callback while streaming;
\* tokio_bridge_try_enable_streaming never turns streaming on without one.
NoCallbackOnlyByNull ==
    [][\A t \in Threads :
        (/\ tokio_bridge_is_streaming(t)' = 1
         /\ Ctx(t)'.stream_callback = NULL
         /\ ~(tokio_bridge_is_streaming(t) = 1
              /\ Ctx(t).stream_callback = NULL))
            => /\ last'.op \in {"enable_streaming", "set_stream_callback"}
               /\ last'.arg.callback = NULL
      ]_vars

(***************************************************************************)
(* Vocabulary of the wiring property.                                      *)
(***************************************************************************)
Configures == {"set_finish_callback", "set_heartbeat", "enable_streaming",
               "set_stream_callback"}

\* No slot holds a function or a ctx and streaming and heartbeats are off.
Unwired(t) ==
    /\ FinishSlot(t) = <<NULL, NULL>>
    /\ HeartbeatSlot(t) = <<NULL, NULL>>
    /\ StreamSlot(t) = <<NULL, NULL>>
    /\ tokio_bridge_is_streaming(t) = 0
    /\ tokio_bridge_get_stream_offset(t) = 0
    /\ tokio_bridge_get_heartbeat_max(t) = 0

(***************************************************************************)
(* C34.  After tokio_bridge_init_ctx the finish, stream and heartbeat      *)
(* callbacks and their ctx pointers are NULL, streaming is off with offset *)
(* 0 and the heartbeat maximum is 0, whatever was configured before; a     *)
(* configuring call on a thread without a context stores nothing; and a    *)
(* slot that holds no function gets one only through its own configuring   *)
(* call, so no callback configured before init is invoked afterwards.      *)
(***************************************************************************)
C34_InitResetsWiring ==
    [][\A t \in Threads :
        /\ (Calls(t, "init_ctx") /\ last'.arg.calloc_ok)
            => HasCtx(t)' /\ Unwired(t)'
        /\ (~HasCtx(t) /\ last'.t = t /\ last'.op \in Configures)
            => ~HasCtx(t)' /\ Unwired(t)'
        /\ (FinishSlot(t)[1] = NULL /\ last'.t = t
            /\ last'.op # "set_finish_callback")
            => FinishSlot(t)'[1] = NULL
        /\ (HeartbeatSlot(t)[1] = NULL /\ last'.t = t
            /\ last'.op # "set_heartbeat")
            => HeartbeatSlot(t)'[1] = NULL
        /\ (StreamSlot(t)[1] = NULL /\ last'.t = t
            /\ last'.op \notin {"enable_streaming", "set_stream_callback"})
            => StreamSlot(t)'[1] = NULL
        /\ (last'.t = t /\ last'.kind = "call")
            => last'.arg.callback # NULL
      ]_vars

\* The finish callback of a context that was also streaming with a
\* heartbeat configured has called tokio_bridge_init_ctx: its own frame
\* belongs to the old context, and the new one has no wiring.
C34_Witness ==
    /\ stack["A"] # <<>>
    /\ stack["A"][1].op = "trigger_finish" /\ stack["A"][1].stale
    /\ last.op = "init_ctx" /\ last.arg.calloc_ok
    /\ HasCtx("A")
    /\ Unwired("A")
    /\ finish_invocations["A"] = 0

(***************************************************************************)
(* Vocabulary of the snapshot property.                                    *)
(***************************************************************************)
\* What the three snapshot getters return.
FinishedGetters(t) ==
    <<tokio_bridge_get_finished_response_code(t),
      tokio_bridge_get_finished_offset(t),
      tokio_bridge_get_finished_header_count(t)>>

FinishOps == {"mark_finished", "trigger_finish"}

(***************************************************************************)
(* C35.  The response code, finished offset and finished header count are  *)
(* written only by a mark_finished / trigger_finish call on a context not  *)
(* yet finished: every other operation (header add, replace and clear,     *)
(* streaming, heartbeat, callback configuration, callback returns) and     *)
(* every finish call on a finished context leaves the three getters        *)
(* unchanged, and while the context is not finished they return            *)
(* 200 / 0 / 0.                                                            *)
(***************************************************************************)
C35_SnapshotFrame ==
    [][\A t \in Threads :
        /\ tokio_bridge_is_finished(t)' = 0
            => FinishedGetters(t)' = <<200, 0, 0>>
        /\ (last'.t = t /\ ~Lifecycle(t)
            /\ (last'.op \notin FinishOps \/ last'.kind = "return"))
            => FinishedGetters(t)' = FinishedGetters(t)
        /\ (last'.t = t /\ last'.op \in FinishOps
            /\ tokio_bridge_is_finished(t) # 0)
            => FinishedGetters(t)' = FinishedGetters(t)
      ]_vars

\* The ledger was cleared after mark_finished(5, 1, 404): no header is held
\* and the getters still return the snapshot, the stream offset being 1.
C35_Witness ==
    /\ last.op = "clear_headers" /\ last.arg.freed = 1
    /\ tokio_bridge_is_finished("A") = 1
    /\ FinishedGetters("A") = <<404, 5, 1>>
    /\ tokio_bridge_get_header_count("A") = 0
    /\ tokio_bridge_get_stream_offset("A") = 1

(***************************************************************************)
(* C36.  When a finish, stream or heartbeat callback returns, the          *)
(* enclosing trigger_finish / send_chunk / send_heartbeat returns without  *)
(* touching the thread's context, whether or not the callback destroyed or *)
(* re-initialised it: tls_ctx and the allocated blocks stay as the         *)
(* callback left them, and the return value is 1 for trigger_finish and    *)
(* send_chunk and (result != 0) for send_heartbeat.                        *)
(***************************************************************************)
C36_NoAccessAfterCallback ==
    [][\A t \in Threads :
        (/\ last'.t = t
         /\ last'.kind = "return"
         /\ last'.op \in {"trigger_finish", "send_chunk", "send_heartbeat"})
            => /\ tls_ctx' = tls_ctx
               /\ allocated' = allocated
               /\ last'.op \in {"trigger_finish", "send_chunk"}
                    => last'.ret = 1
               /\ last'.op = "send_heartbeat"
                    => last'.ret = (IF last'.arg.result # 0 THEN 1 ELSE 0)
      ]_vars

\* send_heartbeat has returned 1 although its callback destroyed the
\* context.
C36_Witness ==
    /\ last.op = "send_heartbeat" /\ last.kind = "return"
    /\ last.ret = 1
    /\ ~HasCtx("A")
    /\ stack["A"] = <<>>

\* trigger_finish has returned 1 to a context that its callback created: the
\* new context is not finished.
FinishReturnsToNewCtx ==
    /\ last.op = "trigger_finish" /\ last.kind = "return"
    /\ last.ret = 1
    /\ HasCtx("A") /\ Ctx("A").is_finished = 0
    /\ stack["A"] = <<>>

(***************************************************************************)
(* Vocabulary of the superglobal cache property.                           *)
(***************************************************************************)
\* No array is cached.
CacheEmpty(t) ==
    /\ superglobals_initialized[t] = 0
    /\ \A i \in TrackVars : cached_superglobal_arrs[t][i] = <<>>

\* Every cached pointer is the array of the current symbol table.
CacheCurrent(t) ==
    /\ superglobals_initialized[t] = 1
    /\ \A i \in TrackVars :
          cached_superglobal_arrs[t][i] = <<<<symbol_table[t].gen, i>>>>

(***************************************************************************)
(* C37.  After tokio_sapi_request_shutdown and after                       *)
(* tokio_sapi_clear_superglobals superglobals_initialized is 0 and every   *)
(* cached array pointer is NULL; a batch set that finds the flag 0         *)
(* resolves the arrays again and writes through a pointer into the current *)
(* symbol table; and after tokio_sapi_set_all_superglobals the cache holds *)
(* the arrays of the current symbol table whatever it held before.         *)
(***************************************************************************)
C37_CacheResetPerRequest ==
    [][\A t \in Threads :
        /\ (last'.t = t
            /\ last'.op \in {"sapi_request_shutdown", "clear_superglobals"})
            => CacheEmpty(t)'
        /\ (last'.t = t /\ last'.op \in BatchOps /\ CacheEmpty(t))
            => /\ last'.arg.arr =
                      <<<<symbol_table[t].gen, last'.arg.track_var>>>>
               /\ CacheCurrent(t)'
        /\ (last'.t = t /\ last'.op = "set_all_superglobals")
            => CacheCurrent(t)'
      ]_vars

\* The first batch set of a second request: the cache was empty, the
\* engine has built its second symbol table, and the entry is in $_SERVER
\* of that table.
C37_Witness ==
    /\ last.op = "set_server_vars_batch" /\ last.arg.resolved
    /\ last.ret = 1
    /\ symbol_table["A"].gen = 1
    /\ last.arg.arr = <<<<1, TRACK_VARS_SERVER>>>>
    /\ symbol_table["A"].arrs[TRACK_VARS_SERVER] = {<<(<<107>>), (<<118>>)>>}
    /\ CacheCurrent("A")

\* tokio_sapi_set_all_superglobals was called with pointers of the previous
\* symbol table in the cache and has replaced them.
SetAllReplacedStaleCache ==
    /\ last.op = "set_all_superglobals" /\ last.arg.stale
    /\ CacheCurrent("A")
    /\ symbol_table["A"].arrs[REQUEST] = {<<(<<107>>), (<<118>>)>>}

(***************************************************************************)
(* Vocabulary of the batch parsing property.                               *)
(***************************************************************************)
\* The records [key_len:u32][key\0][val_len:u32][val] that lie whole within
\* the first len bytes of buffer, from offset p on, up to the first one
\* that has key_len = 0 or does not fit.
RECURSIVE WellFormedFrom(_, _, _)
WellFormedFrom(buffer, len, p) ==
    IF p + 4 > len THEN <<>>
    ELSE LET key_len == U32(buffer, p) IN
         IF key_len = 0 \/ p + 4 + key_len + 4 > len THEN <<>>
         ELSE LET val_len == U32(buffer, p + 4 + key_len) IN
              IF p + 8 + key_len + val_len > len THEN <<>>
              ELSE <<[key |-> Bytes(buffer, p + 4, key_len - 1),
                      val |-> Bytes(buffer, p + 8 + key_len, val_len)]>>
                   \o WellFormedFrom(buffer, len, p + 8 + key_len + val_len)

Min(a, b) == IF a <= b THEN a ELSE b

\* Record i of recs is the last of the first n with its key.
LastOfKey(recs, n, i) ==
    \A j \in (i + 1)..n : recs[j].key # recs[i].key

EmptyKeyCounted ==
    /\ last.op = "set_get_vars_batch"
    /\ last.arg.buffer = Rec(<<>>, <<>>)
    /\ last.arg.buffer_len = Len(last.arg.buffer)
    /\ last.ret = 1
    /\ symbol_table["A"].arrs[TRACK_VARS_GET] = {}

(***************************************************************************)
(* Vocabulary of the request context property.                             *)
(***************************************************************************)
\* What the four readers of the request context return for index 0.
SapiGetters(t) ==
    <<tokio_sapi_get_header_count(t), tokio_sapi_get_header_name(t, 0),
      tokio_sapi_get_header_value(t, 0), tokio_sapi_get_response_code(t)>>

\* The context holds no POST data.
NoPostData(t) ==
    HasReq(t) => /\ Req(t).post_data = <<>>
                 /\ Req(t).post_data_len = 0
                 /\ Req(t).post_data_read = 0

(***************************************************************************)
(* C39.  After tokio_sapi_request_init nothing of an earlier context is    *)
(* left: the header count is 0, the response code 200 and there is no POST *)
(* data, and when the call succeeded the thread has a context with the     *)
(* request id passed.  After tokio_sapi_request_shutdown the thread has    *)
(* no context, the request id is 0, the heartbeat ctx, maximum and         *)
(* callback are NULL / 0 / NULL, tokio_sapi_get_header_count returns 0,    *)
(* the header name and value lookups return NULL and                       *)
(* tokio_sapi_get_response_code returns 200.                               *)
(***************************************************************************)
C39_RequestLifecycle ==
    [][\A t \in Threads :
        /\ (last'.t = t /\ last'.op = "sapi_request_init")
            => /\ SapiGetters(t)' = <<0, <<>>, <<>>, 200>>
               /\ NoPostData(t)'
               /\ last'.ret = 0
                    => /\ HasReq(t)'
                       /\ Req(t)'.request_id = last'.arg.request_id
                       /\ tls_request_id'[t] = last'.arg.request_id
               /\ last'.ret # 0 => ~HasReq(t)'
        /\ (last'.t = t /\ last'.op = "sapi_request_shutdown")
            => /\ ~HasReq(t)'
               /\ tls_request_id'[t] = 0
               /\ tokio_sapi_get_heartbeat_ctx(t)' = NULL
               /\ tokio_sapi_get_heartbeat_max_secs(t)' = 0
               /\ tls_heartbeat_callback'[t] = NULL
               /\ SapiGetters(t)' = <<0, <<>>, <<>>, 200>>
      ]_vars

\* tokio_sapi_request_shutdown has ended a request whose context held one
\* header and response code 404.
C39_Witness ==
    /\ last.op = "sapi_request_shutdown"
    /\ last.arg.had_ctx /\ last.arg.held = 1 /\ last.arg.code = 404
    /\ ~HasReq("A")
    /\ tls_request_id["A"] = 0
    /\ tls_heartbeat_ctx["A"] = NULL
    /\ SapiGetters("A") = <<0, <<>>, <<>>, 200>>

\* tokio_sapi_request_init has replaced a context that held a header and
\* response code 404.
InitReplacedUsedContext ==
    /\ last.op = "sapi_request_init" /\ last.ret = 0
    /\ last.arg.held = 1 /\ last.arg.code = 404
    /\ last.arg.request_id = 8 /\ tls_request_id["A"] = 8
    /\ SapiGetters("A") = <<0, <<>>, <<>>, 200>>

====
